---- MODULE Spec2Model ----
(***************************************************************************)
(* TimeFlow (nod_timer): a model of the SQLite-backed domain models        *)
(* (models/client.py, project.py, tag.py, time_entry.py, settings.py),     *)
(* the Streamlit session/timer state helpers (ui/state.py) and the page    *)
(* handlers that call them (views/timer.py, views/clients.py,              *)
(* ui/components.py).                                                      *)
(*                                                                         *)
(* Conventions                                                             *)
(*   - SQL NULL / Python None is the empty tuple NULL; a present integer   *)
(*     column value v is the one-element tuple <<v>>.                      *)
(*   - A timestamp string "YYYY-MM-DDTHH:MM:SS" is the tuple of its        *)
(*     fields <<day, HH, MM, SS>>, the date part being a day number.       *)
(*     A tuple whose fields are out of range, or of another length, is a   *)
(*     string that does not match DATETIME_FORMAT.                         *)
(*   - Each table with an integer primary key is a function from the keys  *)
(*     present to rows; time_entry_tags and settings are sequences of rows *)
(*     in rowid (insertion) order, the order SELECT * returns them in.     *)
(*     The columns created_at / updated_at / color / billable /            *)
(*     hourly_rate are not read by any modelled decision and are left out. *)
(***************************************************************************)
EXTENDS Integers, Sequences, FiniteSets, TLC

VARIABLES clients, projects, tags, time_entries, time_entry_tags, settings,
          clock, session, call, ret, backup,
          connection, lock, threads, history

vars == <<clients, projects, tags, time_entries, time_entry_tags, settings,
          clock, session, call, ret, backup,
          connection, lock, threads, history>>

db == <<clients, projects, tags, time_entries, time_entry_tags, settings>>

(* the globals of db/connection.py (_connection, _lock), the threads that
   call into it, and what a specification records of the calls made so
   far *)
runtime == <<connection, lock, threads, history>>

----------------------------------------------------------------------------
(* Bounds of the model *)

MaxTicks == 1
MaxEntries == 2
MaxEntryTicks == 1
MaxClients == 2
MaxProjects == 2
MaxTags == 2
MaxBackupProjects == 1
MaxBackupEntries == 1
MaxTimerEntries == 1
TickStep == 90061
MaxStart == 2
MaxFormatHours == 100
MaxSessionEntries == 2
MaxCrudRows == 1
MaxNameRows == 2
MaxSettingCalls == 3
MaxThreads == 2
MaxConnections == 2
MaxRenderEntries == 1
EditSeconds == 60
MaxBillableHours == 2
MaxRate == 150
MaxPageEntries == 2
MaxRefRows == 1

----------------------------------------------------------------------------
(* Values *)

NULL == <<>>

Some(v) == <<v>>

Val(o) == o[1]

EmptyTable == <<>>

(* datetime.strftime(DATETIME_FORMAT): seconds since the model epoch to the
   fields of "%Y-%m-%dT%H:%M:%S" *)
strftime(n) ==
    << n \div 86400,
       (n % 86400) \div 3600,
       (n % 3600) \div 60,
       n % 60 >>

(* does datetime.strptime(s, DATETIME_FORMAT) succeed (else ValueError) *)
IsTimestamp(s) ==
    /\ Len(s) = 4
    /\ s[1] >= 0
    /\ s[2] \in 0..23
    /\ s[3] \in 0..59
    /\ s[4] \in 0..59

(* datetime.strptime(s, DATETIME_FORMAT), as seconds since the model epoch *)
strptime(s) ==
    s[1] * 86400 + s[2] * 3600 + s[3] * 60 + s[4]

(* int((b - a).total_seconds()) of two parsed datetimes *)
total_seconds(a, b) == strptime(b) - strptime(a)

(* strings that are not in DATETIME_FORMAT: "...T24:00:00", "...T00:60:00",
   a truncated "YYYY-MM-DDTHH:MM" *)
Malformed == { <<0, 24, 0, 0>>, <<0, 0, 60, 0>>, <<0, 0, 0>> }

----------------------------------------------------------------------------
(* The database: the six tables as one value *)

Max(S) == CHOOSE x \in S : \A y \in S : y <= x

Min(S) == CHOOSE x \in S : \A y \in S : x <= y

RECURSIVE SortedSeq(_)
SortedSeq(S) ==
    IF S = {} THEN <<>> ELSE <<Min(S)>> \o SortedSeq(S \ {Min(S)})

Range(f) == { f[i] : i \in DOMAIN f }

Drop(t, id) == [i \in DOMAIN t \ {id} |-> t[i]]

(* cursor.lastrowid of an INSERT into a table with an integer primary key *)
NextId(t) == IF DOMAIN t = {} THEN 1 ELSE Max(DOMAIN t) + 1

Ok(D, r) == [db |-> D, ret |-> r]

Raise(D, e) == [db |-> D, ret |-> [raise |-> e]]

Raised(r) == DOMAIN r = {"raise"}

(* string comparison of two stored timestamp strings, field by field (the
   fields are zero-padded, fixed-width): a < b *)
RECURSIVE StrLess(_, _)
StrLess(a, b) ==
    IF b = <<>> THEN FALSE
    ELSE IF a = <<>> THEN TRUE
    ELSE IF Head(a) # Head(b) THEN Head(a) < Head(b)
    ELSE StrLess(Tail(a), Tail(b))

----------------------------------------------------------------------------
(* models/time_entry.py *)

(* SELECT tag_id FROM time_entry_tags WHERE time_entry_id = ? : the lookup
   goes through the primary key (time_entry_id, tag_id), so the tag ids come
   back in ascending order *)
get_tags_for_entry(D, entry_id) ==
    SortedSeq({ j[2] : j \in { k \in Range(D.time_entry_tags) : k[1] = entry_id } })

row_to_time_entry(D, entry_id) ==
    LET row == D.time_entries[entry_id] IN
    [id |-> entry_id,
     description |-> row.description,
     project_id |-> row.project_id,
     start_time |-> row.start_time,
     stop_time |-> row.stop_time,
     duration_seconds |-> row.duration_seconds,
     tags |-> get_tags_for_entry(D, entry_id)]

time_entry_get_by_id(D, entry_id) ==
    IF entry_id \in DOMAIN D.time_entries
      THEN row_to_time_entry(D, entry_id)
      ELSE NULL

(* the junction INSERTs of create / update, one per tag id, in order; the
   first one that violates the primary key or a foreign key raises and the
   rows inserted before it stay in the open transaction *)
RECURSIVE insert_tags(_, _, _)
insert_tags(D, entry_id, tag_ids) ==
    IF tag_ids = <<>> THEN Ok(D, NULL)
    ELSE IF \/ Head(tag_ids) \notin DOMAIN D.tags
            \/ entry_id \notin DOMAIN D.time_entries
            \/ <<entry_id, Head(tag_ids)>> \in Range(D.time_entry_tags)
      THEN Raise(D, "IntegrityError")
    ELSE insert_tags(
           [D EXCEPT !.time_entry_tags = Append(@, <<entry_id, Head(tag_ids)>>)],
           entry_id, Tail(tag_ids))

(* the foreign key time_entries.project_id -> projects.id *)
fk_project(D, project_id) ==
    project_id = NULL \/ Val(project_id) \in DOMAIN D.projects

(* create that stores no duration when only the stop time is given *)
time_entry_create_noduration(D, start_time, description, project_id, stop_time, duration_seconds, tag_ids) ==
    IF ~fk_project(D, project_id)
      THEN Raise(D, "IntegrityError")
    ELSE
      LET entry_id == NextId(D.time_entries)
          row == [description |-> description, project_id |-> project_id,
                  start_time |-> start_time, stop_time |-> stop_time,
                  duration_seconds |-> duration_seconds]
          D1 == [D EXCEPT !.time_entries = @ @@ (entry_id :> row)]
          D2 == insert_tags(D1, entry_id, tag_ids)
      IN IF Raised(D2.ret) THEN D2
         ELSE Ok(D2.db, row @@ [id |-> entry_id, tags |-> tag_ids])

time_entry_create(D, start_time, description, project_id, stop_time, duration_seconds, tag_ids) ==
    IF /\ stop_time # NULL
       /\ duration_seconds = NULL
       /\ ~(IsTimestamp(start_time) /\ IsTimestamp(stop_time))
      THEN Raise(D, "ValueError")
    ELSE IF ~fk_project(D, project_id)
      THEN Raise(D, "IntegrityError")
    ELSE
      LET dur == IF stop_time # NULL /\ duration_seconds = NULL
                   THEN Some(total_seconds(start_time, stop_time))
                   ELSE duration_seconds
          entry_id == NextId(D.time_entries)
          row == [description |-> description, project_id |-> project_id,
                  start_time |-> start_time, stop_time |-> stop_time,
                  duration_seconds |-> dur]
          D1 == [D EXCEPT !.time_entries = @ @@ (entry_id :> row)]
          D2 == insert_tags(D1, entry_id, tag_ids)
      IN IF Raised(D2.ret) THEN D2
         ELSE Ok(D2.db, row @@ [id |-> entry_id, tags |-> tag_ids])

(* the "no change" default (...) of update's project_id, stop_time and
   duration_seconds; description, start_time and tag_ids use None *)
Ellipsis == [default |-> "...", unset |-> TRUE]

time_entry_update(D, entry_id, description, project_id, start_time, stop_time, duration_seconds, tag_ids) ==
    LET existing == time_entry_get_by_id(D, entry_id) IN
    IF existing = NULL THEN Ok(D, NULL)
    ELSE
      LET new_description == IF description # NULL THEN Val(description)
                                                   ELSE existing.description
          new_project_id == IF project_id # Ellipsis THEN project_id
                                                     ELSE existing.project_id
          new_start_time == IF start_time # NULL THEN start_time
                                                 ELSE existing.start_time
          new_stop_time == IF stop_time # Ellipsis THEN stop_time
                                                   ELSE existing.stop_time
          new_duration == IF duration_seconds # Ellipsis THEN duration_seconds
                                                         ELSE existing.duration_seconds
          row == [description |-> new_description, project_id |-> new_project_id,
                  start_time |-> new_start_time, stop_time |-> new_stop_time,
                  duration_seconds |-> new_duration]
      IN IF ~fk_project(D, new_project_id) THEN Raise(D, "IntegrityError")
         ELSE
           LET D1 == [D EXCEPT !.time_entries[entry_id] = row]
               D2 == IF tag_ids = NULL THEN Ok(D1, NULL)
                     ELSE insert_tags(
                            [D1 EXCEPT !.time_entry_tags =
                                SelectSeq(@, LAMBDA j : j[1] # entry_id)],
                            entry_id, Val(tag_ids))
           IN IF Raised(D2.ret) THEN D2
              ELSE Ok(D2.db, row @@ [id |-> entry_id,
                                     tags |-> IF tag_ids # NULL THEN Val(tag_ids)
                                                               ELSE existing.tags])

(* time_entry_tags.time_entry_id REFERENCES time_entries ON DELETE CASCADE *)
cascade_time_entry(D, entry_id) ==
    [D EXCEPT !.time_entry_tags = SelectSeq(@, LAMBDA j : j[1] # entry_id)]

(* a delete that leaves the junction rows of the entry behind *)
time_entry_delete_keep_tags(D, entry_id) ==
    IF entry_id \in DOMAIN D.time_entries
      THEN Ok([D EXCEPT !.time_entries = Drop(@, entry_id)], TRUE)
      ELSE Ok(D, FALSE)

time_entry_delete(D, entry_id) ==
    IF entry_id \in DOMAIN D.time_entries
      THEN Ok(cascade_time_entry([D EXCEPT !.time_entries = Drop(@, entry_id)],
                                 entry_id), TRUE)
      ELSE Ok(D, FALSE)

RunningIds(D) ==
    { i \in DOMAIN D.time_entries : D.time_entries[i].stop_time = NULL }

(* the rows ORDER BY start_time DESC LIMIT 1 may return: SQL leaves the order
   of rows with equal start_time open *)
ActiveIds(D) ==
    { i \in RunningIds(D) :
        \A k \in RunningIds(D) :
           ~StrLess(D.time_entries[i].start_time, D.time_entries[k].start_time) }

(* ORDER BY start_time ASC instead of DESC *)
get_active_entry_asc(D) ==
    IF RunningIds(D) = {} THEN {NULL}
    ELSE { row_to_time_entry(D, i) :
             i \in { r \in RunningIds(D) :
                       \A k \in RunningIds(D) :
                          ~StrLess(D.time_entries[k].start_time,
                                   D.time_entries[r].start_time) } }

(* the set of values get_active_entry can return *)
get_active_entry(D) ==
    IF RunningIds(D) = {} THEN {NULL}
    ELSE { row_to_time_entry(D, i) : i \in ActiveIds(D) }

(* stop_entry that measures the duration from the stop time to the start *)
stop_entry_swapped(D, now, entry_id, stop_time) ==
    LET existing == time_entry_get_by_id(D, entry_id) IN
    IF existing = NULL THEN Ok(D, NULL)
    ELSE
      LET stop == IF stop_time = NULL THEN strftime(now) ELSE stop_time IN
      IF ~(IsTimestamp(existing.start_time) /\ IsTimestamp(stop))
        THEN Raise(D, "ValueError")
      ELSE
        LET duration == Some(total_seconds(stop, existing.start_time)) IN
        Ok([D EXCEPT !.time_entries[entry_id].stop_time = stop,
                     !.time_entries[entry_id].duration_seconds = duration],
           [existing EXCEPT !.stop_time = stop, !.duration_seconds = duration])

stop_entry(D, now, entry_id, stop_time) ==
    LET existing == time_entry_get_by_id(D, entry_id) IN
    IF existing = NULL THEN Ok(D, NULL)
    ELSE
      LET stop == IF stop_time = NULL THEN strftime(now) ELSE stop_time IN
      IF ~(IsTimestamp(existing.start_time) /\ IsTimestamp(stop))
        THEN Raise(D, "ValueError")
      ELSE
        LET duration == Some(total_seconds(existing.start_time, stop)) IN
        Ok([D EXCEPT !.time_entries[entry_id].stop_time = stop,
                     !.time_entries[entry_id].duration_seconds = duration],
           [existing EXCEPT !.stop_time = stop, !.duration_seconds = duration])

----------------------------------------------------------------------------
(* models/tag.py *)

(* the UNIQUE constraint on a name column: no other row has the name *)
name_is_free(t, id, name) ==
    \A i \in DOMAIN t \ {id} : t[i].name # name

tag_create(D, name) ==
    IF ~name_is_free(D.tags, 0, name) THEN Raise(D, "IntegrityError")
    ELSE LET id == NextId(D.tags) IN
         Ok([D EXCEPT !.tags = @ @@ (id :> [name |-> name])],
            [id |-> id, name |-> name])

tag_get_by_id(D, tag_id) ==
    IF tag_id \in DOMAIN D.tags
      THEN D.tags[tag_id] @@ [id |-> tag_id]
      ELSE NULL

tag_update(D, tag_id, name) ==
    IF tag_id \notin DOMAIN D.tags THEN Ok(D, NULL)
    ELSE LET new_name == IF name # NULL THEN Val(name) ELSE D.tags[tag_id].name IN
         IF ~name_is_free(D.tags, tag_id, new_name) THEN Raise(D, "IntegrityError")
         ELSE Ok([D EXCEPT !.tags[tag_id].name = new_name],
                 [id |-> tag_id, name |-> new_name])

(* time_entry_tags.tag_id REFERENCES tags ON DELETE CASCADE *)
cascade_tag(D, tag_id) ==
    [D EXCEPT !.time_entry_tags = SelectSeq(@, LAMBDA j : j[2] # tag_id)]

(* a delete whose WHERE clause is missing: every tag goes *)
tag_delete_all(D, tag_id) ==
    IF tag_id \in DOMAIN D.tags
      THEN Ok([D EXCEPT !.tags = EmptyTable, !.time_entry_tags = <<>>], TRUE)
      ELSE Ok(D, FALSE)

tag_delete(D, tag_id) ==
    IF tag_id \in DOMAIN D.tags
      THEN Ok(cascade_tag([D EXCEPT !.tags = Drop(@, tag_id)], tag_id), TRUE)
      ELSE Ok(D, FALSE)

----------------------------------------------------------------------------
(* models/client.py *)

(* a clients table whose name column is not UNIQUE *)
client_create_dup(D, name) ==
    LET id == NextId(D.clients) IN
    Ok([D EXCEPT !.clients = @ @@ (id :> [name |-> name, archived |-> FALSE])],
       [id |-> id, name |-> name, archived |-> FALSE])

client_create(D, name) ==
    IF ~name_is_free(D.clients, 0, name) THEN Raise(D, "IntegrityError")
    ELSE LET id == NextId(D.clients) IN
         Ok([D EXCEPT !.clients = @ @@ (id :> [name |-> name, archived |-> FALSE])],
            [id |-> id, name |-> name, archived |-> FALSE])

client_get_by_id(D, client_id) ==
    IF client_id \in DOMAIN D.clients
      THEN D.clients[client_id] @@ [id |-> client_id]
      ELSE NULL

client_update(D, client_id, name, archived) ==
    LET existing == client_get_by_id(D, client_id) IN
    IF existing = NULL THEN Ok(D, NULL)
    ELSE LET new_name == IF name # NULL THEN Val(name) ELSE existing.name
             new_archived == IF archived # NULL THEN Val(archived)
                                                ELSE existing.archived
         IN IF ~name_is_free(D.clients, client_id, new_name)
              THEN Raise(D, "IntegrityError")
              ELSE Ok([D EXCEPT !.clients[client_id] =
                          [name |-> new_name, archived |-> new_archived]],
                      [id |-> client_id, name |-> new_name,
                       archived |-> new_archived])

(* projects.client_id REFERENCES clients ON DELETE SET NULL *)
set_null_client(D, client_id) ==
    [D EXCEPT !.projects =
        [p \in DOMAIN @ |-> IF @[p].client_id = Some(client_id)
                              THEN [@[p] EXCEPT !.client_id = NULL]
                              ELSE @[p]]]

(* a delete under ON DELETE CASCADE: the client's projects go with it *)
client_delete_cascade(D, client_id) ==
    IF client_id \in DOMAIN D.clients
      THEN Ok([D EXCEPT !.clients = Drop(@, client_id),
                        !.projects = [p \in { q \in DOMAIN @ :
                                               @[q].client_id # Some(client_id) }
                                        |-> @[p]]], TRUE)
      ELSE Ok(D, FALSE)

(* a delete that returns True without looking at cursor.rowcount *)
client_delete_true(D, client_id) ==
    IF client_id \in DOMAIN D.clients
      THEN Ok(set_null_client([D EXCEPT !.clients = Drop(@, client_id)],
                              client_id), TRUE)
      ELSE Ok(D, TRUE)

client_delete(D, client_id) ==
    IF client_id \in DOMAIN D.clients
      THEN Ok(set_null_client([D EXCEPT !.clients = Drop(@, client_id)],
                              client_id), TRUE)
      ELSE Ok(D, FALSE)

(* true if any non-archived project references the client *)
has_active_projects(D, client_id) ==
    \E p \in DOMAIN D.projects :
        /\ D.projects[p].client_id = Some(client_id)
        /\ ~D.projects[p].archived

----------------------------------------------------------------------------
(* models/project.py *)

(* the foreign key projects.client_id -> clients.id *)
fk_client(D, client_id) ==
    client_id = NULL \/ Val(client_id) \in DOMAIN D.clients

project_create(D, name, client_id) ==
    IF ~fk_client(D, client_id) THEN Raise(D, "IntegrityError")
    ELSE LET id == NextId(D.projects)
             row == [name |-> name, client_id |-> client_id, archived |-> FALSE]
         IN Ok([D EXCEPT !.projects = @ @@ (id :> row)], row @@ [id |-> id])

project_get_by_id(D, project_id) ==
    IF project_id \in DOMAIN D.projects
      THEN D.projects[project_id] @@ [id |-> project_id]
      ELSE NULL

(* SELECT * FROM projects [WHERE archived = 0]: the ids listed *)
project_get_all(D, include_archived) ==
    { p \in DOMAIN D.projects : include_archived \/ ~D.projects[p].archived }

(* client_id defaulting to None instead of ...: passing None leaves the
   link as it is *)
project_update_none(D, project_id, name, client_id, archived) ==
    LET existing == project_get_by_id(D, project_id) IN
    IF existing = NULL THEN Ok(D, NULL)
    ELSE LET new_name == IF name # NULL THEN Val(name) ELSE existing.name
             new_client_id == IF client_id # Ellipsis /\ client_id # NULL
                                THEN client_id
                                ELSE existing.client_id
             new_archived == IF archived # NULL THEN Val(archived)
                                                ELSE existing.archived
             row == [name |-> new_name, client_id |-> new_client_id,
                     archived |-> new_archived]
         IN IF ~fk_client(D, new_client_id) THEN Raise(D, "IntegrityError")
            ELSE Ok([D EXCEPT !.projects[project_id] = row],
                    row @@ [id |-> project_id])

project_update(D, project_id, name, client_id, archived) ==
    LET existing == project_get_by_id(D, project_id) IN
    IF existing = NULL THEN Ok(D, NULL)
    ELSE LET new_name == IF name # NULL THEN Val(name) ELSE existing.name
             new_client_id == IF client_id # Ellipsis THEN client_id
                                                      ELSE existing.client_id
             new_archived == IF archived # NULL THEN Val(archived)
                                                ELSE existing.archived
             row == [name |-> new_name, client_id |-> new_client_id,
                     archived |-> new_archived]
         IN IF ~fk_client(D, new_client_id) THEN Raise(D, "IntegrityError")
            ELSE Ok([D EXCEPT !.projects[project_id] = row],
                    row @@ [id |-> project_id])

(* time_entries.project_id REFERENCES projects ON DELETE SET NULL *)
set_null_project(D, project_id) ==
    [D EXCEPT !.time_entries =
        [e \in DOMAIN @ |-> IF @[e].project_id = Some(project_id)
                              THEN [@[e] EXCEPT !.project_id = NULL]
                              ELSE @[e]]]

project_delete(D, project_id) ==
    IF project_id \in DOMAIN D.projects
      THEN Ok(set_null_project([D EXCEPT !.projects = Drop(@, project_id)],
                               project_id), TRUE)
      ELSE Ok(D, FALSE)

----------------------------------------------------------------------------
(* models/settings.py *)

(* INSERT OR REPLACE INTO settings: a row of the same key is deleted and the
   new row gets the next rowid *)
set_setting(D, key, value) ==
    Ok([D EXCEPT !.settings =
           Append(SelectSeq(@, LAMBDA r : r.key # key),
                  [key |-> key, value |-> value])], NULL)

(* DEFAULTS: the keys with a default and their values *)
DEFAULTS ==
    [default_project_id |-> "", default_billable |-> "false",
     timezone |-> "Europe/Prague", working_hours_per_day |-> "8.0"]

(* the rows SELECT value FROM settings WHERE key = ? finds *)
setting_rows(D, key) == SelectSeq(D.settings, LAMBDA r : r.key = key)

(* get_setting that reads the table only *)
get_setting_stored_only(D, key) ==
    IF setting_rows(D, key) # <<>> THEN Some(setting_rows(D, key)[1].value)
    ELSE NULL

(* the result is None (NULL) or a string, Some(value) *)
get_setting(D, key) ==
    IF setting_rows(D, key) # <<>> THEN Some(setting_rows(D, key)[1].value)
    ELSE IF key \in DOMAIN DEFAULTS THEN Some(DEFAULTS[key])
    ELSE NULL

delete_setting(D, key) ==
    Ok([D EXCEPT !.settings = SelectSeq(@, LAMBDA r : r.key # key)],
       setting_rows(D, key) # <<>>)

(* JSON values.  A scalar carries the type JSON writes it with; the value of
   a table is a sequence (array) of records (objects). *)
JNull == [json |-> "null"]
JNumber(n) == [json |-> "number", n |-> n]
JString(str) == [json |-> "string", s |-> str]
JArray(items) == [json |-> "array", items |-> items]
JObject(members) == [json |-> "object", v |-> members]

(* the cell of a nullable INTEGER / TEXT column as json.dumps writes it *)
JNullableNumber(o) == IF o = NULL THEN JNull ELSE JNumber(Val(o))
JNullableString(o) == IF o = NULL THEN JNull ELSE JString(o)

(* json.dumps gives a text that json.loads parses back; any other text
   makes json.loads raise JSONDecodeError *)
json_dumps(value) == [text |-> value]
NotJson == [garbage |-> "not valid json {{{"]
IsJson(json_str) == DOMAIN json_str = {"text"}
json_loads(json_str) == json_str.text

(* the rows of SELECT * FROM <table>, in rowid order, each a dict from
   column name to value *)
select_all(D, table) ==
    LET ids == SortedSeq(DOMAIN D[table]) IN
    CASE table = "clients" ->
           [i \in 1..Len(ids) |->
              [id |-> JNumber(ids[i]),
               name |-> JString(D.clients[ids[i]].name),
               archived |-> JNumber(IF D.clients[ids[i]].archived THEN 1 ELSE 0)]]
      [] table = "projects" ->
           [i \in 1..Len(ids) |->
              [id |-> JNumber(ids[i]),
               name |-> JString(D.projects[ids[i]].name),
               client_id |-> JNullableNumber(D.projects[ids[i]].client_id),
               archived |-> JNumber(IF D.projects[ids[i]].archived THEN 1 ELSE 0)]]
      [] table = "tags" ->
           [i \in 1..Len(ids) |->
              [id |-> JNumber(ids[i]), name |-> JString(D.tags[ids[i]].name)]]
      [] table = "time_entries" ->
           [i \in 1..Len(ids) |->
              [id |-> JNumber(ids[i]),
               description |-> JString(D.time_entries[ids[i]].description),
               project_id |-> JNullableNumber(D.time_entries[ids[i]].project_id),
               start_time |-> JString(D.time_entries[ids[i]].start_time),
               stop_time |-> JNullableString(D.time_entries[ids[i]].stop_time),
               duration_seconds |->
                   JNullableNumber(D.time_entries[ids[i]].duration_seconds)]]
      [] table = "time_entry_tags" ->
           [i \in 1..Len(D.time_entry_tags) |->
              [time_entry_id |-> JNumber(D.time_entry_tags[i][1]),
               tag_id |-> JNumber(D.time_entry_tags[i][2])]]
      [] table = "settings" ->
           [i \in 1..Len(D.settings) |->
              [key |-> JString(D.settings[i].key),
               value |-> JString(D.settings[i].value)]]

Tables ==
    {"clients", "projects", "tags", "time_entries", "time_entry_tags", "settings"}

export_all_data(D) ==
    json_dumps(JObject([table \in Tables |-> select_all(D, table)]))

delete_order ==
    <<"time_entry_tags", "time_entries", "tags", "projects", "clients", "settings">>

(* an insert order that puts a referencing table before the one it
   references *)
insert_order_children_first ==
    <<"time_entry_tags", "time_entries", "projects", "tags", "clients", "settings">>

insert_order ==
    <<"clients", "projects", "tags", "time_entries", "time_entry_tags", "settings">>

(* DELETE FROM <table>, every row *)
RECURSIVE delete_tables(_, _)
delete_tables(D, order) ==
    IF order = <<>> THEN D
    ELSE delete_tables([D EXCEPT ![Head(order)] = <<>>], Tail(order))

(* the value bound to a column of the INSERT: row.get(col) for a column of
   the column list, the column's DEFAULT (NULL where it has none) for any
   other column *)
Bound(row, columns, col) ==
    IF col \in columns
      THEN IF col \in DOMAIN row THEN row[col] ELSE JNull
    ELSE IF col = "archived" THEN JNumber(0)
    ELSE IF col = "description" THEN JString("")
    ELSE JNull

JNullable(j) == IF j = JNull THEN NULL ELSE Some(j.n)

(* the rowid of the new row: the id given, or the next one *)
RowId(t, id) == IF id = JNull THEN NextId(t) ELSE id.n

(* INSERT INTO <table> (<columns>) VALUES (...) for one row, under the
   NOT NULL, PRIMARY KEY, UNIQUE and FOREIGN KEY constraints of the schema *)
insert_row(D, table, columns, row) ==
    LET b(col) == Bound(row, columns, col) IN
    CASE table = "clients" ->
           IF \/ b("name") = JNull \/ b("archived") = JNull
              \/ RowId(D.clients, b("id")) \in DOMAIN D.clients
              \/ ~name_is_free(D.clients, 0, b("name").s)
             THEN Raise(D, "IntegrityError")
             ELSE Ok([D EXCEPT !.clients = @ @@ (RowId(D.clients, b("id")) :>
                         [name |-> b("name").s,
                          archived |-> b("archived").n # 0])], NULL)
      [] table = "projects" ->
           IF \/ b("name") = JNull \/ b("archived") = JNull
              \/ RowId(D.projects, b("id")) \in DOMAIN D.projects
              \/ ~fk_client(D, JNullable(b("client_id")))
             THEN Raise(D, "IntegrityError")
             ELSE Ok([D EXCEPT !.projects = @ @@ (RowId(D.projects, b("id")) :>
                         [name |-> b("name").s,
                          client_id |-> JNullable(b("client_id")),
                          archived |-> b("archived").n # 0])], NULL)
      [] table = "tags" ->
           IF \/ b("name") = JNull
              \/ RowId(D.tags, b("id")) \in DOMAIN D.tags
              \/ ~name_is_free(D.tags, 0, b("name").s)
             THEN Raise(D, "IntegrityError")
             ELSE Ok([D EXCEPT !.tags = @ @@ (RowId(D.tags, b("id")) :>
                         [name |-> b("name").s])], NULL)
      [] table = "time_entries" ->
           IF \/ b("start_time") = JNull
              \/ RowId(D.time_entries, b("id")) \in DOMAIN D.time_entries
              \/ ~fk_project(D, JNullable(b("project_id")))
             THEN Raise(D, "IntegrityError")
             ELSE Ok([D EXCEPT !.time_entries =
                        @ @@ (RowId(D.time_entries, b("id")) :>
                         [description |-> IF b("description") = JNull
                                            THEN NULL ELSE b("description").s,
                          project_id |-> JNullable(b("project_id")),
                          start_time |-> b("start_time").s,
                          stop_time |-> IF b("stop_time") = JNull
                                          THEN NULL ELSE b("stop_time").s,
                          duration_seconds |->
                              JNullable(b("duration_seconds"))])], NULL)
      [] table = "time_entry_tags" ->
           IF b("time_entry_id") = JNull \/ b("tag_id") = JNull
             THEN Raise(D, "IntegrityError")
             ELSE insert_tags(D, b("time_entry_id").n, <<b("tag_id").n>>)
      [] table = "settings" ->
           IF \/ b("key") = JNull \/ b("value") = JNull
              \/ \E i \in DOMAIN D.settings : D.settings[i].key = b("key").s
             THEN Raise(D, "IntegrityError")
             ELSE Ok([D EXCEPT !.settings =
                        Append(@, [key |-> b("key").s, value |-> b("value").s])],
                     NULL)

(* for row in rows: conn.execute(sql, values); the first INSERT that raises
   ends the import, with the rows before it inserted *)
RECURSIVE insert_rows(_, _, _, _)
insert_rows(D, table, columns, rows) ==
    IF rows = <<>> THEN Ok(D, NULL)
    ELSE LET R == insert_row(D, table, columns, Head(rows)) IN
         IF Raised(R.ret) THEN R
         ELSE insert_rows(R.db, table, columns, Tail(rows))

(* data.get(table, []) *)
RowsOf(data, table) == IF table \in DOMAIN data.v THEN data.v[table] ELSE <<>>

(* for table in insert_order: ... *)
RECURSIVE insert_tables(_, _, _)
insert_tables(D, data, order) ==
    IF order = <<>> THEN Ok(D, NULL)
    ELSE LET rows == RowsOf(data, Head(order)) IN
         IF rows = <<>> THEN insert_tables(D, data, Tail(order))
         ELSE LET R == insert_rows(D, Head(order), DOMAIN rows[1], rows) IN
              IF Raised(R.ret) THEN R
              ELSE insert_tables(R.db, data, Tail(order))

(* an import that deletes before it looks at what it was given *)
import_all_data_eager(D, json_str) ==
    IF ~IsJson(json_str)
      THEN Raise(delete_tables(D, delete_order), "ValueError: Invalid JSON")
    ELSE IF json_loads(json_str).json # "object"
      THEN Raise(delete_tables(D, delete_order),
                 "ValueError: Expected a JSON object at the top level.")
    ELSE insert_tables(delete_tables(D, delete_order), json_loads(json_str),
                       insert_order)

import_all_data(D, json_str) ==
    IF ~IsJson(json_str) THEN Raise(D, "ValueError: Invalid JSON")
    ELSE IF json_loads(json_str).json # "object"
      THEN Raise(D, "ValueError: Expected a JSON object at the top level.")
    ELSE
      LET data == json_loads(json_str)
          R == insert_tables(delete_tables(D, delete_order), data, insert_order)
      IN IF Raised(R.ret) THEN R
         ELSE Ok(R.db, [table \in Tables |-> Len(RowsOf(data, table))])

----------------------------------------------------------------------------
(* ui/state.py *)

MaxManualSeconds == 86400

(* validate_manual_entry with the 24-hour comparison off by one (>=) *)
validate_manual_entry_ge(start_time, end_time) ==
    IF ~IsTimestamp(start_time)
      THEN [ok |-> FALSE, msg |-> "Invalid start time format."]
    ELSE IF ~IsTimestamp(end_time)
      THEN [ok |-> FALSE, msg |-> "Invalid end time format."]
    ELSE IF strptime(end_time) <= strptime(start_time)
      THEN [ok |-> FALSE, msg |-> "End time must be after start time."]
    ELSE IF total_seconds(start_time, end_time) >= MaxManualSeconds
      THEN [ok |-> FALSE, msg |-> "Duration cannot exceed 24 hours."]
    ELSE [ok |-> TRUE, msg |-> ""]

validate_manual_entry(start_time, end_time) ==
    IF ~IsTimestamp(start_time)
      THEN [ok |-> FALSE, msg |-> "Invalid start time format."]
    ELSE IF ~IsTimestamp(end_time)
      THEN [ok |-> FALSE, msg |-> "Invalid end time format."]
    ELSE IF strptime(end_time) <= strptime(start_time)
      THEN [ok |-> FALSE, msg |-> "End time must be after start time."]
    ELSE IF total_seconds(start_time, end_time) > MaxManualSeconds
      THEN [ok |-> FALSE, msg |-> "Duration cannot exceed 24 hours."]
    ELSE [ok |-> TRUE, msg |-> ""]


(* The functions below work on the database D and the session state S and
   return both, with what they return or raise *)
World(D, S, r) == [db |-> D, session |-> S, ret |-> r]

(* sync_timer_state without the reset branch *)
sync_timer_state_no_reset(S, active) ==
    IF active # NULL
      THEN [S EXCEPT !.timer_running = TRUE,
                     !.active_entry_id = Some(active.id),
                     !.timer_description = active.description,
                     !.timer_project_id = active.project_id,
                     !.timer_tag_ids = active.tags]
    ELSE S

(* a sync_timer_state that does not look at the database: the session is
   set to not running *)
sync_timer_state_forget(S, active) ==
    [S EXCEPT !.timer_running = FALSE, !.active_entry_id = NULL]

(* active is what get_active_entry returned *)
sync_timer_state(S, active) ==
    IF active # NULL
      THEN [S EXCEPT !.timer_running = TRUE,
                     !.active_entry_id = Some(active.id),
                     !.timer_description = active.description,
                     !.timer_project_id = active.project_id,
                     !.timer_tag_ids = active.tags]
    ELSE IF S.timer_running
      THEN [S EXCEPT !.timer_running = FALSE, !.active_entry_id = NULL]
    ELSE S

(* start_timer that refuses to start while an entry is running *)
start_timer_exclusive(D, S, now, description, project_id, tag_ids) ==
    IF RunningIds(D) # {} THEN World(D, S, NULL)
    ELSE
      LET R == time_entry_create(D, strftime(now), description, project_id,
                                 NULL, NULL, tag_ids) IN
      IF Raised(R.ret) THEN World(R.db, S, R.ret)
      ELSE World(R.db,
                 [S EXCEPT !.timer_running = TRUE,
                           !.active_entry_id = Some(R.ret.id),
                           !.timer_description = description,
                           !.timer_project_id = project_id,
                           !.timer_tag_ids = tag_ids],
                 [id |-> R.ret.id])

start_timer(D, S, now, description, project_id, tag_ids) ==
    LET R == time_entry_create(D, strftime(now), description, project_id,
                               NULL, NULL, tag_ids) IN
    IF Raised(R.ret) THEN World(R.db, S, R.ret)
    ELSE World(R.db,
               [S EXCEPT !.timer_running = TRUE,
                         !.active_entry_id = Some(R.ret.id),
                         !.timer_description = description,
                         !.timer_project_id = project_id,
                         !.timer_tag_ids = tag_ids],
               [id |-> R.ret.id])

(* stop_timer that stops every running entry *)
stop_timer_all(D, S, now) ==
    IF S.active_entry_id = NULL THEN World(D, S, NULL)
    ELSE LET R == stop_entry(D, now, Val(S.active_entry_id), strftime(now)) IN
         IF Raised(R.ret) THEN World(R.db, S, R.ret)
         ELSE World([R.db EXCEPT !.time_entries =
                        [e \in DOMAIN @ |->
                           IF @[e].stop_time = NULL
                             THEN [@[e] EXCEPT !.stop_time = strftime(now)]
                             ELSE @[e]]],
                    [S EXCEPT !.timer_running = FALSE, !.active_entry_id = NULL,
                              !.timer_description = "", !.timer_project_id = NULL,
                              !.timer_tag_ids = <<>>],
                    R.ret)

(* stop_timer that clears the session only when stop_entry found the entry *)
stop_timer_if_stopped(D, S, now) ==
    IF S.active_entry_id = NULL THEN World(D, S, NULL)
    ELSE LET R == stop_entry(D, now, Val(S.active_entry_id), strftime(now)) IN
         IF Raised(R.ret) \/ R.ret = NULL THEN World(R.db, S, R.ret)
         ELSE World(R.db,
                    [S EXCEPT !.timer_running = FALSE, !.active_entry_id = NULL,
                              !.timer_description = "", !.timer_project_id = NULL,
                              !.timer_tag_ids = <<>>],
                    R.ret)

(* stop_timer that clears the session and leaves the entry running *)
stop_timer_session_only(D, S, now) ==
    IF S.active_entry_id = NULL THEN World(D, S, NULL)
    ELSE World([D EXCEPT !.time_entries[Val(S.active_entry_id)].stop_time =
                            strftime(now)],
               [S EXCEPT !.timer_running = FALSE, !.active_entry_id = NULL,
                         !.timer_description = "", !.timer_project_id = NULL,
                         !.timer_tag_ids = <<>>],
               NULL)

stop_timer(D, S, now) ==
    IF S.active_entry_id = NULL THEN World(D, S, NULL)
    ELSE LET R == stop_entry(D, now, Val(S.active_entry_id), strftime(now)) IN
         IF Raised(R.ret) THEN World(R.db, S, R.ret)
         ELSE World(R.db,
                    [S EXCEPT !.timer_running = FALSE, !.active_entry_id = NULL,
                              !.timer_description = "", !.timer_project_id = NULL,
                              !.timer_tag_ids = <<>>],
                    R.ret)

(* description and tag_ids: NULL (None) is "no change", Some(v) a value;
   project_id: Ellipsis is "no change" *)
update_running_entry(D, S, description, project_id, tag_ids) ==
    IF S.active_entry_id = NULL THEN World(D, S, NULL)
    ELSE
      LET S1 == [S EXCEPT
                   !.timer_description =
                       IF description # NULL THEN Val(description) ELSE @,
                   !.timer_project_id =
                       IF project_id # Ellipsis THEN project_id ELSE @,
                   !.timer_tag_ids =
                       IF tag_ids # NULL THEN Val(tag_ids) ELSE @]
      IN IF description = NULL /\ project_id = Ellipsis /\ tag_ids = NULL
           THEN World(D, S1, NULL)
           ELSE LET R == time_entry_update(D, Val(S.active_entry_id), description,
                                           project_id, NULL, Ellipsis, Ellipsis,
                                           tag_ids)
                IN World(R.db, S1, IF Raised(R.ret) THEN R.ret ELSE NULL)

(* str(n) of an integer n >= 0: its decimal digits, most significant first,
   as character codes ("0" is 48) *)
RECURSIVE str(_)
str(n) == IF n < 10 THEN <<48 + n>> ELSE str(n \div 10) \o <<48 + (n % 10)>>

(* the format specification 02d: the digits, padded with "0" on the left up
   to a width of two; a longer number is not cut *)
format_02d(n) == IF Len(str(n)) < 2 THEN <<48>> \o str(n) ELSE str(n)

(* f"{hours % 24:02d}:..." *)
format_duration_capped(seconds) ==
    LET secs0 == IF seconds = NULL \/ Val(seconds) < 0 THEN 0 ELSE Val(seconds)
    IN format_02d((secs0 \div 3600) % 24) \o <<58>>
         \o format_02d((secs0 % 3600) \div 60) \o <<58>> \o format_02d(secs0 % 60)

(* f"{hours:02d}:{minutes}:{secs:02d}" *)
format_duration_unpadded(seconds) ==
    LET secs0 == IF seconds = NULL \/ Val(seconds) < 0 THEN 0 ELSE Val(seconds)
    IN format_02d(secs0 \div 3600) \o <<58>>
         \o str((secs0 % 3600) \div 60) \o <<58>> \o format_02d(secs0 % 60)

(* seconds: NULL (None) or Some(n); the result is the string as the
   sequence of its character codes (":" is 58) *)
format_duration(seconds) ==
    LET secs0 == IF seconds = NULL \/ Val(seconds) < 0 THEN 0 ELSE Val(seconds)
        hours == secs0 \div 3600
        minutes == (secs0 % 3600) \div 60
        secs == secs0 % 60
    IN format_02d(hours) \o <<58>> \o format_02d(minutes) \o <<58>> \o format_02d(secs)

----------------------------------------------------------------------------
(* views/timer.py, ui/components.py: one run of the Timer page *)

(* the values of the description, project and tags inputs of the timer
   section: w.description, w.project_id, w.tag_ids *)
Inputs(description, project_id, tag_ids) ==
    [description |-> description, project_id |-> project_id, tag_ids |-> tag_ids]

(* F of the value of v, with v evaluated once *)
Bind(v, F(_)) == CHOOSE r \in { F(x) : x \in {v} } : TRUE

(* "Update running entry if description/project/tags changed": the three
   comparisons in turn, each on what the one before left; an exception ends
   the run *)
push_description(W, w) ==
    IF w.description # W.session.timer_description
      THEN update_running_entry(W.db, W.session, Some(w.description), Ellipsis, NULL)
      ELSE W

push_project(W, w) ==
    IF Raised(W.ret) THEN W
    ELSE IF w.project_id # W.session.timer_project_id
      THEN update_running_entry(W.db, W.session, NULL, w.project_id, NULL)
      ELSE W

push_tags(W, w) ==
    IF Raised(W.ret) THEN W
    ELSE IF w.tag_ids # W.session.timer_tag_ids
      THEN update_running_entry(W.db, W.session, NULL, Ellipsis, Some(w.tag_ids))
      ELSE W

push_inputs(D, S, w) ==
    Bind(push_description(World(D, S, NULL), w),
         LAMBDA W1 : Bind(push_project(W1, w), LAMBDA W2 : push_tags(W2, w)))

(* render() up to the Start/Stop button: init_timer_state, sync_timer_state
   and the push of changed inputs while the timer runs *)
timer_section(D, S, active, w) ==
    Bind(sync_timer_state(S, active),
         LAMBDA S0 : IF S0.timer_running THEN push_inputs(D, S0, w)
                                         ELSE World(D, S0, NULL))

(* get_today_entries: the entries whose start_time begins with today's
   date *)
get_today_entries(D, now) ==
    { e \in DOMAIN D.time_entries :
         D.time_entries[e].start_time[1] = strftime(now)[1] }

StError(msg) == [error |-> msg]
StRerun == [rerun |-> TRUE]

(* the submit handler of the manual entry form *)
manual_entry_submit(D, S, m, start_str, end_str) ==
    IF ~validate_manual_entry(start_str, end_str).ok
      THEN World(D, S, StError(validate_manual_entry(start_str, end_str).msg))
      ELSE LET R == time_entry_create(D, start_str, m.description, m.project_id,
                                      end_str, NULL, m.tag_ids)
           IN World(R.db, S, IF Raised(R.ret) THEN R.ret ELSE StRerun)

(* "Save changes" of the edit form of an entry card *)
edit_form_save(D, S, entry_id, m, new_start_str, new_end_str) ==
    LET entry == time_entry_get_by_id(D, entry_id) IN
    IF entry.stop_time # NULL
      THEN IF strptime(new_end_str) > strptime(new_start_str)
             THEN LET R == time_entry_update(D, entry_id, Some(m.description),
                               m.project_id, new_start_str, new_end_str,
                               Some(total_seconds(new_start_str, new_end_str)),
                               Some(m.tag_ids))
                  IN World(R.db, S, IF Raised(R.ret) THEN R.ret ELSE StRerun)
             ELSE World(D, S, StError("End time must be after start time."))
      ELSE LET R == time_entry_update(D, entry_id, Some(m.description),
                               m.project_id, new_start_str, Ellipsis, Ellipsis,
                               Some(m.tag_ids))
           IN World(R.db, S, IF Raised(R.ret) THEN R.ret ELSE StRerun)

(* a "Delete entry" button that deletes at once, without the confirmation *)
edit_form_delete_now(D, S, entry_id) ==
    World(time_entry_delete(D, entry_id).db, S, StRerun)

(* "Delete entry" of the edit form *)
edit_form_delete(D, S, entry_id) ==
    World(D, [S EXCEPT !.confirm_delete_id = Some(entry_id)], StRerun)

(* delete_confirmation: "Yes, delete" and "Cancel" *)
delete_confirmation_yes(D, S) ==
    World(time_entry_delete(D, Val(S.confirm_delete_id)).db,
          [S EXCEPT !.confirm_delete_id = NULL], StRerun)

delete_confirmation_cancel(D, S) ==
    World(D, [S EXCEPT !.confirm_delete_id = NULL], StRerun)

(* st.rerun(): the script runs again from the top with the same inputs and
   no button pressed; a run that ended in an error message or an exception
   is not followed by another *)
Rerun(W, w) ==
    IF W.ret = StRerun
      THEN { World(V.db, V.session, W.ret) :
               V \in { timer_section(W.db, W.session, active, w) :
                         active \in get_active_entry(W.db) } }
      ELSE {W}

----------------------------------------------------------------------------
(* State shared by every specification *)

NoCall == [op |-> "none", args |-> <<>>, existing |-> NULL]
Pending == [tag |-> "pending"]

NoSession ==
    [timer_running |-> FALSE, active_entry_id |-> NULL,
     timer_description |-> "", timer_project_id |-> NULL,
     timer_tag_ids |-> <<>>, confirm_delete_id |-> NULL]

(* no connection opened, no thread in db/connection.py, no setting call
   made *)
NoRuntime ==
    /\ connection = NULL
    /\ lock = NULL
    /\ threads = <<>>
    /\ history = <<>>

EmptyDb ==
    /\ clients = EmptyTable
    /\ projects = EmptyTable
    /\ tags = EmptyTable
    /\ time_entries = EmptyTable
    /\ time_entry_tags = <<>>
    /\ settings = EmptyTable

----------------------------------------------------------------------------
(* Specification of validate_manual_entry as a pure function: Init draws
   the two strings, the action applies the function. *)

ValidateStarts == { strftime(n) : n \in 0..MaxStart } \cup Malformed

ValidateEnds ==
    { strftime(n + d) : n \in 0..MaxStart,
                        d \in { 0, 1, MaxManualSeconds - 1, MaxManualSeconds,
                                MaxManualSeconds + 1, 2 * MaxManualSeconds } }
      \cup Malformed

InitValidate ==
    /\ EmptyDb
    /\ clock = 0
    /\ session = NoSession
    /\ backup = NULL
    /\ NoRuntime
    /\ \E s \in ValidateStarts, e \in ValidateEnds :
         call = [op |-> "validate_manual_entry", args |-> <<s, e>>,
                 existing |-> NULL]
    /\ ret = Pending

ValidateManualEntry ==
    /\ call.op = "validate_manual_entry"
    /\ ret = Pending
    /\ ret' = validate_manual_entry(call.args[1], call.args[2])
    /\ UNCHANGED <<db, clock, session, call, backup, runtime>>

NextValidate == ValidateManualEntry

SpecValidate == InitValidate /\ [][NextValidate]_vars

----------------------------------------------------------------------------
(* Reading and writing the database variables *)

CurDb ==
    [clients |-> clients, projects |-> projects, tags |-> tags,
     time_entries |-> time_entries, time_entry_tags |-> time_entry_tags,
     settings |-> settings]

SetDb(D) ==
    /\ clients' = D.clients
    /\ projects' = D.projects
    /\ tags' = D.tags
    /\ time_entries' = D.time_entries
    /\ time_entry_tags' = D.time_entry_tags
    /\ settings' = D.settings

(* one call of a model function: its arguments, the row it found under the
   id it was given (NULL if none), the database it leaves and what it returns
   or raises *)
Do(op, args, existing, R) ==
    /\ SetDb(R.db)
    /\ call' = [op |-> op, args |-> args, existing |-> existing]
    /\ ret' = R.ret

(* datetime.now() moves on between two calls *)
Tick ==
    /\ clock + TickStep <= MaxTicks * TickStep
    /\ clock' = clock + TickStep
    /\ UNCHANGED <<db, session, call, ret, backup, runtime>>

----------------------------------------------------------------------------
(* Specification of the TimeEntry model functions called directly, over a
   database that holds one project and one tag *)

EntryTimes == { strftime(k * TickStep) : k \in 0..MaxEntryTicks }

(* the arguments <<start_time, stop_time, duration_seconds, project_id,
   tag_ids>> tried: a running entry with and without project and tag, a
   stopped one for every pair of times, one with an explicit duration *)
CreateArgs ==
    { <<s, NULL, NULL, NULL, <<>>>> : s \in EntryTimes }
      \cup { <<s, NULL, NULL, Some(1), <<1>>>> : s \in EntryTimes }
      \cup { <<s, t, NULL, Some(1), <<1>>>> : s \in EntryTimes, t \in EntryTimes }
      \cup { <<strftime(0), strftime(0), Some(7), NULL, <<>>>> }

InitEntry ==
    /\ clients = EmptyTable
    /\ projects = (1 :> [name |-> "p", client_id |-> NULL, archived |-> FALSE])
    /\ tags = (1 :> [name |-> "t"])
    /\ time_entries = EmptyTable
    /\ time_entry_tags = <<>>
    /\ settings = EmptyTable
    /\ clock = 0
    /\ session = NoSession
    /\ backup = NULL
    /\ NoRuntime
    /\ call = NoCall
    /\ ret = NULL

EntryCreate ==
    \E a \in CreateArgs :
       /\ NextId(time_entries) <= MaxEntries
       /\ Do("create", a, NULL,
             time_entry_create(CurDb, a[1], "", a[4], a[2], a[3], a[5]))
       /\ UNCHANGED <<clock, session, backup, runtime>>

EntryStop ==
    \E entry_id \in 1..MaxEntries, t \in {NULL} \cup EntryTimes :
       /\ Do("stop_entry", <<entry_id, t>>, time_entry_get_by_id(CurDb, entry_id),
             stop_entry(CurDb, clock, entry_id, t))
       /\ UNCHANGED <<clock, session, backup, runtime>>

EntryGetActive ==
    \E r \in get_active_entry(CurDb) :
       /\ Do("get_active_entry", <<>>, NULL, Ok(CurDb, r))
       /\ UNCHANGED <<clock, session, backup, runtime>>

NextEntry ==
    \/ EntryCreate
    \/ EntryStop
    \/ EntryGetActive

SpecEntry == InitEntry /\ [][NextEntry]_vars

----------------------------------------------------------------------------
(* Specification of the deletes of the Client, Project, Tag and TimeEntry
   models called directly.  Names are irrelevant here: every create is given
   the name kept for the id it will get, so no create collides. *)

NameOf(id) == <<"a", "b", "c", "d">>[id]

InitEmpty ==
    /\ EmptyDb
    /\ clock = 0
    /\ session = NoSession
    /\ backup = NULL
    /\ NoRuntime
    /\ call = NoCall
    /\ ret = NULL

(* the rows that reference a row about to be deleted *)
ProjectsOf(D, client_id) ==
    { p \in DOMAIN D.projects : D.projects[p].client_id = Some(client_id) }

EntriesOf(D, project_id) ==
    { e \in DOMAIN D.time_entries : D.time_entries[e].project_id = Some(project_id) }

EntriesTagged(D, tag_id) ==
    { j[1] : j \in { k \in Range(D.time_entry_tags) : k[2] = tag_id } }

Found(row, used_by) == [row |-> row, used_by |-> used_by]

RefClientCreate ==
    /\ NextId(clients) <= MaxClients
    /\ Do("client_create", <<NameOf(NextId(clients))>>, NULL,
          client_create(CurDb, NameOf(NextId(clients))))
    /\ UNCHANGED <<clock, session, backup, runtime>>

RefProjectCreate ==
    \E client_id \in {NULL} \cup { Some(c) : c \in 1..MaxClients } :
       /\ NextId(projects) <= MaxProjects
       /\ Do("project_create", <<NameOf(NextId(projects)), client_id>>, NULL,
             project_create(CurDb, NameOf(NextId(projects)), client_id))
       /\ UNCHANGED <<clock, session, backup, runtime>>

RefEntryCreate ==
    \E project_id \in {NULL} \cup { Some(p) : p \in 1..MaxProjects } :
       /\ NextId(time_entries) <= MaxEntries
       /\ Do("create", <<strftime(0), NULL, NULL, project_id, <<>>>>, NULL,
             time_entry_create(CurDb, strftime(0), "", project_id, NULL, NULL, <<>>))
       /\ UNCHANGED <<clock, session, backup, runtime>>

RefClientDelete ==
    \E client_id \in 1..MaxClients :
       /\ Do("client_delete", <<client_id>>,
             Found(client_get_by_id(CurDb, client_id), ProjectsOf(CurDb, client_id)),
             client_delete(CurDb, client_id))
       /\ UNCHANGED <<clock, session, backup, runtime>>

RefProjectDelete ==
    \E project_id \in 1..MaxProjects :
       /\ Do("project_delete", <<project_id>>,
             Found(project_get_by_id(CurDb, project_id), EntriesOf(CurDb, project_id)),
             project_delete(CurDb, project_id))
       /\ UNCHANGED <<clock, session, backup, runtime>>

NextRefs ==
    \/ RefClientCreate
    \/ RefProjectCreate
    \/ RefEntryCreate
    \/ RefClientDelete
    \/ RefProjectDelete

SpecRefs == InitEmpty /\ [][NextRefs]_vars

InitTags ==
    /\ clients = EmptyTable
    /\ projects = (1 :> [name |-> "p", client_id |-> NULL, archived |-> FALSE])
    /\ tags = EmptyTable
    /\ time_entries = EmptyTable
    /\ time_entry_tags = <<>>
    /\ settings = EmptyTable
    /\ clock = 0
    /\ session = NoSession
    /\ backup = NULL
    /\ NoRuntime
    /\ call = NoCall
    /\ ret = NULL

TagCreate ==
    /\ NextId(tags) <= MaxTags
    /\ Do("tag_create", <<NameOf(NextId(tags))>>, NULL,
          tag_create(CurDb, NameOf(NextId(tags))))
    /\ UNCHANGED <<clock, session, backup, runtime>>

(* the tag_ids lists tried: every set of tag ids, in ascending order *)
TagLists == { SortedSeq(S) : S \in SUBSET (1..MaxTags) }

TagEntryCreate ==
    \E a \in { <<NULL, "">>, <<Some(1), "x">> }, tag_ids \in TagLists :
       /\ NextId(time_entries) <= MaxEntries
       /\ Do("create", <<strftime(0), NULL, NULL, a[1], tag_ids>>, NULL,
             time_entry_create(CurDb, strftime(0), a[2], a[1], NULL, NULL, tag_ids))
       /\ UNCHANGED <<clock, session, backup, runtime>>

TagDelete ==
    \E tag_id \in 1..MaxTags :
       /\ Do("tag_delete", <<tag_id>>,
             Found(IF tag_id \in DOMAIN tags THEN tags[tag_id] ELSE NULL,
                   EntriesTagged(CurDb, tag_id)),
             tag_delete(CurDb, tag_id))
       /\ UNCHANGED <<clock, session, backup, runtime>>

TagEntryDelete ==
    \E entry_id \in 1..MaxEntries :
       /\ Do("delete", <<entry_id>>,
             Found(time_entry_get_by_id(CurDb, entry_id), {}),
             time_entry_delete(CurDb, entry_id))
       /\ UNCHANGED <<clock, session, backup, runtime>>

NextTags ==
    \/ TagCreate
    \/ TagEntryCreate
    \/ TagDelete
    \/ TagEntryDelete

SpecTags == InitTags /\ [][NextTags]_vars

----------------------------------------------------------------------------
(* views/clients.py, views/projects.py: the archive buttons of the Clients
   and Projects pages *)

(* an archive button that calls update without consulting
   has_active_projects *)
archive_client_unguarded(D, client_id) ==
    [db |-> client_update(D, client_id, NULL, Some(TRUE)).db, ret |-> StRerun]

(* the handler of the archive button of a client card *)
archive_client(D, client_id) ==
    IF has_active_projects(D, client_id)
      THEN Ok(D, StError("Cannot archive"))
      ELSE [db |-> client_update(D, client_id, NULL, Some(TRUE)).db,
            ret |-> StRerun]

unarchive_client(D, client_id) ==
    [db |-> client_update(D, client_id, NULL, Some(FALSE)).db, ret |-> StRerun]

(* the archive / unarchive button of a project card *)
archive_project(D, project_id, archived) ==
    [db |-> project_update(D, project_id, NULL, Ellipsis, Some(archived)).db,
     ret |-> StRerun]

(* the non-archived projects of a client *)
ActiveProjectsOf(D, client_id) ==
    { p \in ProjectsOf(D, client_id) : ~D.projects[p].archived }

CliClientCreate ==
    /\ NextId(clients) <= MaxClients
    /\ Do("client_create", <<NameOf(NextId(clients))>>, NULL,
          client_create(CurDb, NameOf(NextId(clients))))
    /\ UNCHANGED <<clock, session, backup, runtime>>

CliProjectCreate ==
    \E client_id \in {NULL} \cup { Some(c) : c \in 1..MaxClients } :
       /\ NextId(projects) <= MaxProjects
       /\ Do("project_create", <<NameOf(NextId(projects)), client_id>>, NULL,
             project_create(CurDb, NameOf(NextId(projects)), client_id))
       /\ UNCHANGED <<clock, session, backup, runtime>>

(* the card shows the archive button for a project that is not archived,
   the unarchive button for one that is *)
CliProjectArchiveClick ==
    \E project_id \in DOMAIN projects :
       /\ Do("archive_project", <<project_id, ~projects[project_id].archived>>,
             Found(project_get_by_id(CurDb, project_id), {}),
             archive_project(CurDb, project_id, ~projects[project_id].archived))
       /\ UNCHANGED <<clock, session, backup, runtime>>

CliArchiveClick ==
    \E client_id \in DOMAIN clients :
       /\ ~clients[client_id].archived
       /\ Do("archive_client", <<client_id>>,
             Found(client_get_by_id(CurDb, client_id),
                   ActiveProjectsOf(CurDb, client_id)),
             archive_client(CurDb, client_id))
       /\ UNCHANGED <<clock, session, backup, runtime>>

CliUnarchiveClick ==
    \E client_id \in DOMAIN clients :
       /\ clients[client_id].archived
       /\ Do("unarchive_client", <<client_id>>,
             Found(client_get_by_id(CurDb, client_id), {}),
             unarchive_client(CurDb, client_id))
       /\ UNCHANGED <<clock, session, backup, runtime>>

NextClients ==
    \/ CliClientCreate
    \/ CliProjectCreate
    \/ CliProjectArchiveClick
    \/ CliArchiveClick
    \/ CliUnarchiveClick

SpecClients == InitEmpty /\ [][NextClients]_vars

----------------------------------------------------------------------------
(* Specification of backup and restore: a database built through the model
   functions, exported, and restored from the text just exported or from
   another text *)

(* the newest row of a table, or NULL when it has none *)
Newest(t) == IF DOMAIN t = {} THEN NULL ELSE Some(Max(DOMAIN t))

(* every tag id, newest first *)
RECURSIVE Reversed(_)
Reversed(seq) == IF seq = <<>> THEN <<>> ELSE Reversed(Tail(seq)) \o <<Head(seq)>>

SettingKeys == {"timezone"}

(* texts given to import that are not the backup just made: not JSON at
   all; JSON that is not an object; a backup of another database; a backup
   whose project references a client it does not hold *)
NonObjects ==
    { json_dumps(JArray(<<JNumber(1), JNumber(2), JNumber(3)>>)),
      json_dumps(JNull) }

OtherBackup ==
    json_dumps(JObject(
      [clients |-> <<[id |-> JNumber(5), name |-> JString("z"), archived |-> JNumber(1)]>>,
       projects |-> <<[id |-> JNumber(4), name |-> JString("y"),
                       client_id |-> JNumber(5), archived |-> JNumber(0)]>>]))

BrokenBackup ==
    json_dumps(JObject(
      [projects |-> <<[id |-> JNumber(4), name |-> JString("y"),
                       client_id |-> JNumber(9), archived |-> JNumber(0)]>>]))

Uploads == {NotJson, OtherBackup, BrokenBackup} \cup NonObjects

BkClientCreate ==
    /\ NextId(clients) <= MaxClients
    /\ Do("client_create", <<NameOf(NextId(clients))>>, NULL,
          client_create(CurDb, NameOf(NextId(clients))))
    /\ UNCHANGED <<clock, session, backup, runtime>>

(* the oldest client is deleted *)
BkClientDelete ==
    /\ clients # EmptyTable
    /\ Do("client_delete", <<Min(DOMAIN clients)>>,
          Found(client_get_by_id(CurDb, Min(DOMAIN clients)),
                ProjectsOf(CurDb, Min(DOMAIN clients))),
          client_delete(CurDb, Min(DOMAIN clients)))
    /\ UNCHANGED <<clock, session, backup, runtime>>

BkProjectCreate ==
    /\ NextId(projects) <= MaxBackupProjects
    /\ Do("project_create", <<NameOf(NextId(projects)), Newest(clients)>>, NULL,
          project_create(CurDb, NameOf(NextId(projects)), Newest(clients)))
    /\ UNCHANGED <<clock, session, backup, runtime>>

BkTagCreate ==
    /\ NextId(tags) <= MaxTags
    /\ Do("tag_create", <<NameOf(NextId(tags))>>, NULL,
          tag_create(CurDb, NameOf(NextId(tags))))
    /\ UNCHANGED <<clock, session, backup, runtime>>

(* a stopped entry of the newest project carrying every tag, newest tag
   first *)
BkEntryCreate ==
    /\ NextId(time_entries) <= MaxBackupEntries
    /\ Do("create",
          <<strftime(0), strftime(TickStep), NULL, Newest(projects),
            Reversed(SortedSeq(DOMAIN tags))>>, NULL,
          time_entry_create(CurDb, strftime(0), "x", Newest(projects),
                            strftime(TickStep), NULL,
                            Reversed(SortedSeq(DOMAIN tags))))
    /\ UNCHANGED <<clock, session, backup, runtime>>

BkSetSetting ==
    \E key \in SettingKeys :
       /\ Do("set_setting", <<key, "v">>, NULL, set_setting(CurDb, key, "v"))
       /\ UNCHANGED <<clock, session, backup, runtime>>

(* "Generate backup" *)
BkExport ==
    /\ call.op # "export_all_data"
    /\ Do("export_all_data", <<>>, NULL, Ok(CurDb, export_all_data(CurDb)))
    /\ UNCHANGED <<clock, session, backup, runtime>>

(* "Restore from backup", with the file just generated or another one; the
   ghost field existing tells whether the text is what an export of the
   database as it is gives *)
BkImport ==
    \E json_str \in Uploads \cup (IF call.op = "export_all_data" THEN {ret} ELSE {}) :
       /\ Do("import_all_data", <<json_str>>, json_str = export_all_data(CurDb),
             import_all_data(CurDb, json_str))
       /\ UNCHANGED <<clock, session, backup, runtime>>

NextBackup ==
    \/ BkClientCreate
    \/ BkClientDelete
    \/ BkProjectCreate
    \/ BkTagCreate
    \/ BkEntryCreate
    \/ BkSetSetting
    \/ BkExport
    \/ BkImport

SpecBackup == InitEmpty /\ [][NextBackup]_vars

----------------------------------------------------------------------------
(* Specification of the Timer page in one browser session, over a database
   that holds one project and one tag.  Every action but Tick is one run of
   the page with at most one button pressed, followed by the run st.rerun()
   starts. *)

WidgetValues == { Inputs("", NULL, <<>>), Inputs("x", Some(1), <<1>>) }

TimesOfDay == { Tail(t) : t \in EntryTimes }

(* the end of a run: what it leaves in the database and the session *)
Commit(op, args, W) ==
    /\ SetDb(W.db)
    /\ session' = W.session
    /\ call' = [op |-> op, args |-> args, existing |-> NULL]
    /\ ret' = W.ret
    /\ UNCHANGED <<clock, backup, runtime>>

(* a button handler that ends in st.rerun() unless it raised *)
ThenRerun(W) == IF Raised(W.ret) THEN W ELSE World(W.db, W.session, StRerun)

(* the page as the run finds it after the timer section *)
Sections(w) ==
    { timer_section(CurDb, session, active, w) : active \in get_active_entry(CurDb) }

(* a run without a button: a changed input, or the autorefresh *)
TimerReload ==
    \E w \in WidgetValues : \E P \in Sections(w) :
       Commit("reload", <<>>, P)

TimerStart ==
    \E w \in WidgetValues : \E P \in Sections(w) :
       /\ ~Raised(P.ret)
       /\ ~P.session.timer_running
       /\ NextId(P.db.time_entries) <= MaxTimerEntries
       /\ \E H \in { start_timer(P.db, P.session, clock, w.description,
                                  w.project_id, w.tag_ids) } :
             \E W \in Rerun(ThenRerun(H), w) : Commit("start_timer", <<>>, W)

TimerStop ==
    \E w \in WidgetValues : \E P \in Sections(w) :
       /\ ~Raised(P.ret)
       /\ P.session.timer_running
       /\ \E H \in { stop_timer(P.db, P.session, clock) } :
             \E W \in Rerun(ThenRerun(H), w) : Commit("stop_timer", <<>>, W)

TimerManualAdd ==
    \E w \in WidgetValues : \E P \in Sections(w) :
       \E a \in TimesOfDay, b \in TimesOfDay :
          /\ ~Raised(P.ret)
          /\ NextId(P.db.time_entries) <= MaxTimerEntries
          /\ \E H \in { manual_entry_submit(P.db, P.session, w,
                                  <<strftime(clock)[1]>> \o a,
                                  <<strftime(clock)[1]>> \o b) } :
                \E W \in Rerun(H, w) : Commit("manual_entry", <<a, b>>, W)

TimerSave ==
    \E w \in WidgetValues : \E P \in Sections(w) :
       \E m \in WidgetValues, new_start \in EntryTimes, new_end \in EntryTimes :
          \E entry_id \in get_today_entries(P.db, clock) :
             /\ ~Raised(P.ret)
             /\ \E H \in { edit_form_save(P.db, P.session, entry_id, m,
                                             new_start, new_end) } :
                   \E W \in Rerun(H, w) : Commit("save", <<entry_id>>, W)

TimerDeleteClick ==
    \E w \in WidgetValues : \E P \in Sections(w) :
       \E entry_id \in get_today_entries(P.db, clock) :
          /\ ~Raised(P.ret)
          /\ \E H \in { edit_form_delete(P.db, P.session, entry_id) } :
                \E W \in Rerun(H, w) : Commit("delete_click", <<entry_id>>, W)

TimerConfirmYes ==
    \E w \in WidgetValues : \E P \in Sections(w) :
       /\ ~Raised(P.ret)
       /\ P.session.confirm_delete_id # NULL
       /\ \E H \in { delete_confirmation_yes(P.db, P.session) } :
             \E W \in Rerun(H, w) : Commit("confirm_delete", <<>>, W)

TimerCancel ==
    \E w \in WidgetValues : \E P \in Sections(w) :
       /\ ~Raised(P.ret)
       /\ P.session.confirm_delete_id # NULL
       /\ \E H \in { delete_confirmation_cancel(P.db, P.session) } :
             \E W \in Rerun(H, w) : Commit("cancel_delete", <<>>, W)

NextTimer ==
    \/ Tick
    \/ TimerReload
    \/ TimerStart
    \/ TimerStop
    \/ TimerManualAdd
    \/ TimerSave
    \/ TimerDeleteClick
    \/ TimerConfirmYes
    \/ TimerCancel

SpecTimer == InitEntry /\ [][NextTimer]_vars

----------------------------------------------------------------------------
(* Specification of format_duration as a pure function: Init draws two
   arguments, the action formats both *)

FormatHours == { 0, 9, 10, 25, 99, MaxFormatHours }

FormatSeconds ==
    { NULL, Some(-1), Some(-3600) }
      \cup { Some(h * 3600 + m * 60 + s) :
               h \in FormatHours, m \in {0, 9, 59}, s \in {0, 1, 59} }

InitFormat ==
    /\ EmptyDb
    /\ clock = 0
    /\ session = NoSession
    /\ backup = NULL
    /\ NoRuntime
    /\ \E a \in FormatSeconds, b \in FormatSeconds :
         call = [op |-> "format_duration", args |-> <<a, b>>, existing |-> NULL]
    /\ ret = Pending

FormatDuration ==
    /\ call.op = "format_duration"
    /\ ret = Pending
    /\ ret' = [a |-> format_duration(call.args[1]),
               b |-> format_duration(call.args[2])]
    /\ UNCHANGED <<db, clock, session, call, backup, runtime>>

NextFormat == FormatDuration

SpecFormat == InitFormat /\ [][NextFormat]_vars

----------------------------------------------------------------------------
(* Specification of sync_timer_state, start_timer and stop_timer called
   directly, in any order, by two browser sessions on the one database: here
   session is the pair of their session states. Entry cards let either
   session delete an entry. *)

SessionIds == {1, 2}

InitSessions ==
    /\ clients = EmptyTable
    /\ projects = (1 :> [name |-> "p", client_id |-> NULL, archived |-> FALSE])
    /\ tags = (1 :> [name |-> "t"])
    /\ time_entries = EmptyTable
    /\ time_entry_tags = <<>>
    /\ settings = EmptyTable
    /\ clock = 0
    /\ session = <<NoSession, NoSession>>
    /\ backup = NULL
    /\ NoRuntime
    /\ call = NoCall
    /\ ret = NULL

(* one call by session i, which leaves the world W *)
SessionCall(i, op, args, existing, W) ==
    /\ SetDb(W.db)
    /\ session' = [session EXCEPT ![i] = W.session]
    /\ call' = [op |-> op, args |-> <<i>> \o args, existing |-> existing]
    /\ ret' = W.ret
    /\ UNCHANGED <<clock, backup, runtime>>

SesSync(i) ==
    \E active \in get_active_entry(CurDb) :
       SessionCall(i, "sync_timer_state", <<>>, active,
                   World(CurDb, sync_timer_state(session[i], active), NULL))

SesStart(i) ==
    \E w \in WidgetValues :
       /\ NextId(time_entries) <= MaxSessionEntries
       /\ SessionCall(i, "start_timer", <<>>, NULL,
                      start_timer(CurDb, session[i], clock, w.description,
                                  w.project_id, w.tag_ids))

(* call.existing is the entry_id stop_timer reads from the session *)
SesStop(i) ==
    SessionCall(i, "stop_timer", <<>>, session[i].active_entry_id,
                stop_timer(CurDb, session[i], clock))

(* the confirmed delete of an entry card, in whichever session *)
SesDelete ==
    \E entry_id \in DOMAIN time_entries :
       /\ Do("delete", <<entry_id>>, NULL, time_entry_delete(CurDb, entry_id))
       /\ UNCHANGED <<clock, session, backup, runtime>>

NextSessions ==
    \/ Tick
    \/ \E i \in SessionIds : SesSync(i)
    \/ \E i \in SessionIds : SesStart(i)
    \/ \E i \in SessionIds : SesStop(i)
    \/ SesDelete

SpecSessions == InitSessions /\ [][NextSessions]_vars

----------------------------------------------------------------------------
(* Specification of get_by_id, update, stop_entry and delete of the four
   models called directly with ids that exist, that existed and were
   deleted, and that never existed, over databases of at most MaxCrudRows
   rows *)

CrudTables == {"clients", "projects", "tags", "time_entries"}

CrudIds == 1..(MaxCrudRows + 1)

(* an id no row has *)
NoSuchId == MaxCrudRows + 2

(* the number of rows stored in the four tables *)
CrudRows ==
    Cardinality(DOMAIN clients) + Cardinality(DOMAIN projects)
      + Cardinality(DOMAIN tags) + Cardinality(DOMAIN time_entries)

NfClientCreate ==
    /\ CrudRows < MaxCrudRows
    /\ NextId(clients) <= MaxCrudRows
    /\ Do("create", <<NextId(clients), "clients">>, NULL,
          client_create(CurDb, NameOf(NextId(clients))))
    /\ UNCHANGED <<clock, session, backup, runtime>>

NfProjectCreate ==
    \E client_id \in {NULL} \cup { Some(c) : c \in DOMAIN clients } :
       /\ CrudRows < MaxCrudRows
       /\ NextId(projects) <= MaxCrudRows
       /\ Do("create", <<NextId(projects), "projects">>, NULL,
             project_create(CurDb, NameOf(NextId(projects)), client_id))
       /\ UNCHANGED <<clock, session, backup, runtime>>

NfTagCreate ==
    /\ CrudRows < MaxCrudRows
    /\ NextId(tags) <= MaxCrudRows
    /\ Do("create", <<NextId(tags), "tags">>, NULL,
          tag_create(CurDb, NameOf(NextId(tags))))
    /\ UNCHANGED <<clock, session, backup, runtime>>

NfEntryCreate ==
    \E project_id \in {NULL} \cup { Some(p) : p \in DOMAIN projects } :
       /\ CrudRows < MaxCrudRows
       /\ NextId(time_entries) <= MaxCrudRows
       /\ Do("create", <<NextId(time_entries), "time_entries">>, NULL,
             time_entry_create(CurDb, strftime(0), "", project_id, NULL, NULL,
                               SortedSeq(DOMAIN tags)))
       /\ UNCHANGED <<clock, session, backup, runtime>>

NfGetById ==
    \E id \in CrudIds, table \in CrudTables :
       /\ Do("get_by_id", <<id, table>>, NULL,
             Ok(CurDb, CASE table = "clients" -> client_get_by_id(CurDb, id)
                         [] table = "projects" -> project_get_by_id(CurDb, id)
                         [] table = "tags" -> tag_get_by_id(CurDb, id)
                         [] table = "time_entries" -> time_entry_get_by_id(CurDb, id)))
       /\ UNCHANGED <<clock, session, backup, runtime>>

NfClientUpdate ==
    \E id \in CrudIds, name \in {NULL, Some("a")}, archived \in {Some(TRUE)} :
       /\ Do("update", <<id, "clients", name, archived>>, NULL,
             client_update(CurDb, id, name, archived))
       /\ UNCHANGED <<clock, session, backup, runtime>>

NfProjectUpdate ==
    \E id \in CrudIds, name \in {Some("z")}, client_id \in {Ellipsis, Some(NoSuchId)} :
       /\ Do("update", <<id, "projects", name, client_id>>, NULL,
             project_update(CurDb, id, name, client_id, NULL))
       /\ UNCHANGED <<clock, session, backup, runtime>>

NfTagUpdate ==
    \E id \in CrudIds, name \in {NULL, Some("a")} :
       /\ Do("update", <<id, "tags", name>>, NULL, tag_update(CurDb, id, name))
       /\ UNCHANGED <<clock, session, backup, runtime>>

NfEntryUpdate ==
    \E id \in CrudIds, description \in {Some("z")}, project_id \in {Ellipsis, Some(NoSuchId)}, tag_ids \in {NULL, Some(<<NoSuchId>>)} :
       /\ Do("update", <<id, "time_entries", description, project_id, tag_ids>>, NULL,
             time_entry_update(CurDb, id, description, project_id, NULL,
                               Ellipsis, Ellipsis, tag_ids))
       /\ UNCHANGED <<clock, session, backup, runtime>>

NfStopEntry ==
    \E id \in CrudIds, stop_time \in {NULL} :
       /\ Do("stop_entry", <<id, "time_entries", stop_time>>, NULL,
             stop_entry(CurDb, clock, id, stop_time))
       /\ UNCHANGED <<clock, session, backup, runtime>>

NfDelete ==
    \E id \in CrudIds, table \in CrudTables :
       /\ Do("delete", <<id, table>>, NULL,
             CASE table = "clients" -> client_delete(CurDb, id)
               [] table = "projects" -> project_delete(CurDb, id)
               [] table = "tags" -> tag_delete(CurDb, id)
               [] table = "time_entries" -> time_entry_delete(CurDb, id))
       /\ UNCHANGED <<clock, session, backup, runtime>>

NextNotFound ==
    \/ NfClientCreate
    \/ NfProjectCreate
    \/ NfTagCreate
    \/ NfEntryCreate
    \/ NfGetById
    \/ NfClientUpdate
    \/ NfProjectUpdate
    \/ NfTagUpdate
    \/ NfEntryUpdate
    \/ NfStopEntry
    \/ NfDelete

SpecNotFound == InitEmpty /\ [][NextNotFound]_vars

----------------------------------------------------------------------------
(* Specification of create, update (rename) and delete of clients and tags
   called with names that are free and names that are taken *)

Names == { NameOf(i) : i \in 1..MaxNameRows }

NmClientCreate ==
    \E name \in Names :
       /\ NextId(clients) <= MaxNameRows
       /\ Do("client_create", <<name>>, NULL, client_create(CurDb, name))
       /\ UNCHANGED <<clock, session, backup, runtime>>

NmClientRename ==
    \E client_id \in DOMAIN clients, name \in Names :
       /\ Do("client_update", <<name, client_id>>, NULL,
             client_update(CurDb, client_id, Some(name), NULL))
       /\ UNCHANGED <<clock, session, backup, runtime>>

NmClientDelete ==
    \E client_id \in DOMAIN clients :
       /\ Do("client_delete", <<client_id>>, NULL, client_delete(CurDb, client_id))
       /\ UNCHANGED <<clock, session, backup, runtime>>

NmTagCreate ==
    \E name \in Names :
       /\ NextId(tags) <= MaxNameRows
       /\ Do("tag_create", <<name>>, NULL, tag_create(CurDb, name))
       /\ UNCHANGED <<clock, session, backup, runtime>>

NmTagRename ==
    \E tag_id \in DOMAIN tags, name \in Names :
       /\ Do("tag_update", <<name, tag_id>>, NULL,
             tag_update(CurDb, tag_id, Some(name)))
       /\ UNCHANGED <<clock, session, backup, runtime>>

NmTagDelete ==
    \E tag_id \in DOMAIN tags :
       /\ Do("tag_delete", <<tag_id>>, NULL, tag_delete(CurDb, tag_id))
       /\ UNCHANGED <<clock, session, backup, runtime>>

NextNames ==
    \/ NmClientCreate
    \/ NmClientRename
    \/ NmClientDelete
    \/ NmTagCreate
    \/ NmTagRename
    \/ NmTagDelete

SpecNames == InitEmpty /\ [][NextNames]_vars

----------------------------------------------------------------------------
(* Specification of Project.update and TimeEntry.update called directly on
   a database of one client, one project, one tag and one running entry,
   with each argument omitted, passed as None and passed as a value *)

InitUpdate ==
    /\ clients = (1 :> [name |-> "a", archived |-> FALSE])
    /\ projects = (1 :> [name |-> "p", client_id |-> NULL, archived |-> FALSE])
    /\ tags = (1 :> [name |-> "t"])
    /\ time_entries = (1 :> [description |-> "", project_id |-> NULL,
                             start_time |-> strftime(0), stop_time |-> NULL,
                             duration_seconds |-> NULL])
    /\ time_entry_tags = <<>>
    /\ settings = EmptyTable
    /\ clock = 0
    /\ session = NoSession
    /\ backup = NULL
    /\ NoRuntime
    /\ call = NoCall
    /\ ret = NULL

UpdProject ==
    \E name \in {NULL, Some("q")}, client_id \in {Ellipsis, NULL, Some(1)}, archived \in {NULL, Some(TRUE)} :
       /\ Do("project_update", <<name, client_id, archived>>,
             project_get_by_id(CurDb, 1),
             project_update(CurDb, 1, name, client_id, archived))
       /\ UNCHANGED <<clock, session, backup, runtime>>

(* description, project_id and tag_ids supplied or not, the times omitted *)
UpdEntryLinks ==
    \E description \in {NULL, Some("d")}, project_id \in {Ellipsis, NULL, Some(1)}, tag_ids \in {NULL, Some(<<>>), Some(<<1>>)} :
       /\ Do("update", <<description, project_id, NULL, Ellipsis, Ellipsis, tag_ids>>,
             time_entry_get_by_id(CurDb, 1),
             time_entry_update(CurDb, 1, description, project_id, NULL,
                               Ellipsis, Ellipsis, tag_ids))
       /\ UNCHANGED <<clock, session, backup, runtime>>

(* start_time, stop_time and duration_seconds supplied or not, the rest
   omitted *)
UpdEntryTimes ==
    \E start_time \in {NULL, strftime(TickStep)}, stop_time \in {Ellipsis, NULL, strftime(2 * TickStep)}, duration_seconds \in {Ellipsis, NULL, Some(5)} :
       /\ Do("update", <<NULL, Ellipsis, start_time, stop_time, duration_seconds, NULL>>,
             time_entry_get_by_id(CurDb, 1),
             time_entry_update(CurDb, 1, NULL, Ellipsis, start_time,
                               stop_time, duration_seconds, NULL))
       /\ UNCHANGED <<clock, session, backup, runtime>>

NextUpdate ==
    \/ UpdProject
    \/ UpdEntryLinks
    \/ UpdEntryTimes

SpecUpdate == InitUpdate /\ [][NextUpdate]_vars

----------------------------------------------------------------------------
(* Specification of get_setting, set_setting and delete_setting called
   directly; history is the sequence of the set_setting and delete_setting
   calls made: <<"set", key, value>> or <<"delete", key>> *)

(* two keys with a default, one of them the empty string, and one unknown
   key *)
SettingNames == {"timezone", "default_project_id", "theme"}

SettingValues == {"", "UTC"}

InitSettings ==
    /\ EmptyDb
    /\ clock = 0
    /\ session = NoSession
    /\ backup = NULL
    /\ connection = NULL
    /\ lock = NULL
    /\ threads = <<>>
    /\ history = <<>>
    /\ call = NoCall
    /\ ret = NULL

SetGet ==
    \E key \in SettingNames :
       /\ Do("get_setting", <<key>>, NULL, Ok(CurDb, get_setting(CurDb, key)))
       /\ UNCHANGED <<clock, session, backup, runtime>>

SetSet ==
    \E key \in SettingNames, value \in SettingValues :
       /\ Len(history) < MaxSettingCalls
       /\ Do("set_setting", <<key, value>>, NULL, set_setting(CurDb, key, value))
       /\ history' = Append(history, <<"set", key, value>>)
       /\ UNCHANGED <<clock, session, backup, connection, lock, threads>>

SetDelete ==
    \E key \in SettingNames :
       /\ Len(history) < MaxSettingCalls
       /\ Do("delete_setting", <<key>>, NULL, delete_setting(CurDb, key))
       /\ history' = Append(history, <<"delete", key>>)
       /\ UNCHANGED <<clock, session, backup, connection, lock, threads>>

NextSettings ==
    \/ SetGet
    \/ SetSet
    \/ SetDelete

SpecSettings == InitSettings /\ [][NextSettings]_vars

----------------------------------------------------------------------------
(* db/connection.py: threads that call get_connection() (without a path)
   and close_connection() concurrently, one step per statement.

   connection is _connection: NULL or Some(n), n numbering the connections
   sqlite3.connect returned; lock is _lock: NULL or Some(t), the thread that
   holds it; threads[t].pc is where thread t is, threads[t].conn the
   connection its last get_connection returned.  Here history records, for
   the claims, how many connections were created in all and since the last
   close_connection, and which ones get_connection returned since then. *)

ThreadIds == 1..MaxThreads

InitConnection ==
    /\ EmptyDb
    /\ clock = 0
    /\ session = NoSession
    /\ backup = NULL
    /\ call = NoCall
    /\ ret = NULL
    /\ connection = NULL
    /\ lock = NULL
    /\ threads = [t \in ThreadIds |-> [pc |-> "idle", conn |-> NULL]]
    /\ history = [total |-> 0, opened |-> 0, returned |-> {}]

(* with _lock: entered without waiting for the lock *)
acquire_unlocked(t) ==
    /\ lock' = Some(t)

(* with _lock: the thread waits until the lock is free and takes it *)
acquire(t) ==
    /\ lock = NULL
    /\ lock' = Some(t)

Goto(t, pc) == threads' = [threads EXCEPT ![t].pc = pc]

InGetConnection ==
    { t \in ThreadIds : threads[t].pc \in {"get_lock", "get_check", "get_create", "get_return"} }

(* a thread calls get_connection(); db_path is None *)
GetConnectionCall(t) ==
    /\ threads[t].pc = "idle"
    /\ history.total + Cardinality(InGetConnection) < MaxConnections
    /\ Goto(t, "get_lock")
    /\ UNCHANGED <<db, clock, session, call, ret, backup, connection, lock, history>>

GetConnectionLock(t) ==
    /\ threads[t].pc = "get_lock"
    /\ acquire(t)
    /\ Goto(t, "get_check")
    /\ UNCHANGED <<db, clock, session, call, ret, backup, connection, history>>

(* if _connection is None *)
GetConnectionCheck(t) ==
    /\ threads[t].pc = "get_check"
    /\ Goto(t, IF connection = NULL THEN "get_create" ELSE "get_return")
    /\ UNCHANGED <<db, clock, session, call, ret, backup, connection, lock, history>>

(* _connection = _create_connection(DB_PATH) *)
GetConnectionCreate(t) ==
    /\ threads[t].pc = "get_create"
    /\ connection' = Some(history.total + 1)
    /\ history' = [history EXCEPT !.total = @ + 1, !.opened = @ + 1]
    /\ Goto(t, "get_return")
    /\ UNCHANGED <<db, clock, session, call, ret, backup, lock>>

(* return _connection, which leaves the with block *)
GetConnectionReturn(t) ==
    /\ threads[t].pc = "get_return"
    /\ threads' = [threads EXCEPT ![t] = [pc |-> "idle", conn |-> connection]]
    /\ history' = [history EXCEPT !.returned = @ \cup {connection}]
    /\ lock' = NULL
    /\ UNCHANGED <<db, clock, session, call, ret, backup, connection>>

CloseConnectionCall(t) ==
    /\ threads[t].pc = "idle"
    /\ Goto(t, "close_lock")
    /\ UNCHANGED <<db, clock, session, call, ret, backup, connection, lock, history>>

CloseConnectionLock(t) ==
    /\ threads[t].pc = "close_lock"
    /\ acquire(t)
    /\ Goto(t, "close_check")
    /\ UNCHANGED <<db, clock, session, call, ret, backup, connection, history>>

(* if _connection is not None: close it and set _connection = None; then
   the with block is left *)
CloseConnectionClose(t) ==
    /\ threads[t].pc = "close_check"
    /\ connection' = NULL
    /\ history' = [history EXCEPT !.opened = 0, !.returned = {}]
    /\ lock' = NULL
    /\ Goto(t, "idle")
    /\ UNCHANGED <<db, clock, session, call, ret, backup>>

NextConnection ==
    \/ \E t \in ThreadIds : GetConnectionCall(t)
    \/ \E t \in ThreadIds : GetConnectionLock(t)
    \/ \E t \in ThreadIds : GetConnectionCheck(t)
    \/ \E t \in ThreadIds : GetConnectionCreate(t)
    \/ \E t \in ThreadIds : GetConnectionReturn(t)
    \/ \E t \in ThreadIds : CloseConnectionCall(t)
    \/ \E t \in ThreadIds : CloseConnectionLock(t)
    \/ \E t \in ThreadIds : CloseConnectionClose(t)

SpecConnection == InitConnection /\ [][NextConnection]_vars

----------------------------------------------------------------------------
(* views/timer.py, _render_timer_section: the values the three inputs of
   the timer section return in one page run.  An input the user did not
   touch returns the default the code passes to it (value=, index=,
   default=); an input the user set returns one of its options. *)

(* project_options: the projects the Project selectbox offers *)
project_options(D) == project_get_all(D, FALSE)

(* current_proj_idx: the option the selectbox shows by default, "(No
   project)" unless the session's project is among the options *)
current_proj(D, S) ==
    IF S.timer_project_id # NULL /\ Val(S.timer_project_id) \in project_options(D)
      THEN S.timer_project_id
      ELSE NULL

(* current_tag_names: the session's tags that still exist *)
current_tags(D, S) ==
    SelectSeq(S.timer_tag_ids, LAMBDA tid : tid \in DOMAIN D.tags)

(* u says what the user did to each input: NULL for an input left alone,
   Some(v) for one set to v *)
timer_inputs(D, S, u) ==
    Inputs(IF u.description = NULL THEN S.timer_description ELSE Val(u.description),
           IF u.project_id = NULL THEN current_proj(D, S) ELSE Val(u.project_id),
           IF u.tag_ids = NULL THEN current_tags(D, S) ELSE Val(u.tag_ids))

(* render() up to the Start/Stop button, with the inputs as the user left
   them *)
render_timer(D, S, active, u) ==
    Bind(sync_timer_state(S, active),
         LAMBDA S0 : timer_section(D, S0, active, timer_inputs(D, S0, u)))

(* Specification of the Timer page and the archive buttons of the Projects
   page in one browser session, over two projects and one tag *)

UserChanges(D) ==
    [description : {NULL, Some("x")},
     project_id : {NULL, Some(NULL)} \cup { Some(Some(p)) : p \in project_options(D) },
     tag_ids : {NULL, Some(<<>>), Some(<<1>>)}]

InitRender ==
    /\ clients = EmptyTable
    /\ projects = (1 :> [name |-> "p", client_id |-> NULL, archived |-> FALSE])
                    @@ (2 :> [name |-> "q", client_id |-> NULL, archived |-> FALSE])
    /\ tags = (1 :> [name |-> "t"])
    /\ time_entries = EmptyTable
    /\ time_entry_tags = <<>>
    /\ settings = EmptyTable
    /\ clock = 0
    /\ session = NoSession
    /\ backup = NULL
    /\ NoRuntime
    /\ call = NoCall
    /\ ret = NULL

(* the end of a run of the page: call.args is what the user did to the
   inputs, call.existing the entry sync_timer_state found running *)
RenderCommit(op, u, active, W) ==
    /\ SetDb(W.db)
    /\ session' = W.session
    /\ call' = [op |-> op, args |-> <<u>>, existing |-> active]
    /\ ret' = W.ret
    /\ UNCHANGED <<clock, backup, runtime>>

(* a run without a button *)
RnRender ==
    \E u \in UserChanges(CurDb) : \E active \in get_active_entry(CurDb) :
       \E P \in { render_timer(CurDb, session, active, u) } :
          RenderCommit("render", u, active, P)

RnStart ==
    \E u \in UserChanges(CurDb) : \E active \in get_active_entry(CurDb) :
       \E P \in { render_timer(CurDb, session, active, u) } :
          \E w \in { timer_inputs(CurDb, sync_timer_state(session, active), u) } :
             /\ ~Raised(P.ret)
             /\ ~P.session.timer_running
             /\ NextId(P.db.time_entries) <= MaxRenderEntries
             /\ \E H \in { start_timer(P.db, P.session, clock, w.description,
                                        w.project_id, w.tag_ids) } :
                   \E W \in Rerun(ThenRerun(H), w) :
                      RenderCommit("start_timer", u, active, W)

RnStop ==
    \E u \in UserChanges(CurDb) : \E active \in get_active_entry(CurDb) :
       \E P \in { render_timer(CurDb, session, active, u) } :
          \E w \in { timer_inputs(CurDb, sync_timer_state(session, active), u) } :
             /\ ~Raised(P.ret)
             /\ P.session.timer_running
             /\ \E H \in { stop_timer(P.db, P.session, clock) } :
                   \E W \in Rerun(ThenRerun(H), w) :
                      RenderCommit("stop_timer", u, active, W)

(* the archive / unarchive button of a project card on the Projects page *)
RnArchiveProject ==
    \E p \in DOMAIN projects :
       /\ Do("archive_project", <<p>>, NULL,
             archive_project(CurDb, p, ~projects[p].archived))
       /\ UNCHANGED <<clock, session, backup, runtime>>

NextRender ==
    \/ RnRender
    \/ RnStart
    \/ RnStop
    \/ RnArchiveProject

SpecRender == InitRender /\ [][NextRender]_vars

----------------------------------------------------------------------------
(* views/projects.py, ui/components.py: the edit forms of a project card
   and of an entry card.  As in the timer section, u says what the user did
   to each input of the form: NULL for an input left alone, which returns
   the default the code passes it, Some(v) for one set to v. *)

(* client_options: the clients the Client selectbox offers *)
client_options(D) == { c \in DOMAIN D.clients : ~D.clients[c].archived }

(* current_client_idx: "(No client)" unless the project's client is among
   the options *)
current_client(D, proj) ==
    IF proj.client_id # NULL /\ Val(proj.client_id) \in client_options(D)
      THEN proj.client_id
      ELSE NULL

(* "Save changes" of the edit form of a project card *)
project_edit_save(D, project_id, u) ==
    LET proj == project_get_by_id(D, project_id)
        new_name == IF u.name = NULL THEN proj.name ELSE Val(u.name)
        new_client_id == IF u.client_id = NULL THEN current_client(D, proj)
                                               ELSE Val(u.client_id)
    IN IF new_name = ""
         THEN Ok(D, StError("Project name cannot be empty."))
         ELSE LET R == project_update(D, project_id, Some(new_name),
                                      new_client_id, NULL)
              IN [db |-> R.db, ret |-> IF Raised(R.ret) THEN R.ret ELSE StRerun]

(* current_project_idx and current_tag_names of the edit form of an entry
   card *)
edit_current_project(D, entry) ==
    IF entry.project_id # NULL /\ Val(entry.project_id) \in project_get_all(D, FALSE)
      THEN entry.project_id
      ELSE NULL

edit_current_tags(D, entry) ==
    SelectSeq(entry.tags, LAMBDA tid : tid \in DOMAIN D.tags)

(* the description, project and tags inputs of the entry form; the entries
   here all have a description *)
entry_edit_inputs(D, entry, u) ==
    Inputs(IF u.description = NULL THEN entry.description ELSE Val(u.description),
           IF u.project_id = NULL THEN edit_current_project(D, entry)
                                  ELSE Val(u.project_id),
           IF u.tag_ids = NULL THEN edit_current_tags(D, entry) ELSE Val(u.tag_ids))

(* "Save changes" of the entry form with the date and time inputs left
   alone: they return the entry's start and stop, or twice its start while
   it runs *)
entry_edit_save(D, S, entry_id, u) ==
    LET entry == time_entry_get_by_id(D, entry_id) IN
    edit_form_save(D, S, entry_id, entry_edit_inputs(D, entry, u),
                   entry.start_time,
                   IF entry.stop_time # NULL THEN entry.stop_time
                                             ELSE entry.start_time)

(* Specification of the edit forms and the archive buttons, over one
   client, its project, one tag and one completed entry of that project *)

ProjectChanges(D) ==
    [name : {NULL, Some("q")},
     client_id : {NULL, Some(NULL)} \cup { Some(Some(c)) : c \in client_options(D) }]

InitEdit ==
    /\ clients = (1 :> [name |-> "a", archived |-> FALSE])
    /\ projects = (1 :> [name |-> "p", client_id |-> Some(1), archived |-> FALSE])
    /\ tags = (1 :> [name |-> "t"])
    /\ time_entries = (1 :> [description |-> "", project_id |-> Some(1),
                             start_time |-> strftime(0),
                             stop_time |-> strftime(EditSeconds),
                             duration_seconds |-> Some(EditSeconds)])
    /\ time_entry_tags = <<<<1, 1>>>>
    /\ settings = EmptyTable
    /\ clock = 0
    /\ session = NoSession
    /\ backup = NULL
    /\ NoRuntime
    /\ call = NoCall
    /\ ret = NULL

(* call.args is the id of the card and what the user did to the inputs *)
EdProjectSave ==
    \E p \in DOMAIN projects : \E u \in ProjectChanges(CurDb) :
       /\ Do("project_edit_save", <<p, u>>, NULL, project_edit_save(CurDb, p, u))
       /\ UNCHANGED <<clock, session, backup, runtime>>

EdEntrySave ==
    \E e \in get_today_entries(CurDb, clock) : \E u \in UserChanges(CurDb) :
       \E W \in { entry_edit_save(CurDb, session, e, u) } :
          /\ Do("entry_edit_save", <<e, u>>, NULL, W)
          /\ session' = W.session
          /\ UNCHANGED <<clock, backup, runtime>>

EdArchiveProject ==
    \E p \in DOMAIN projects :
       /\ Do("archive_project", <<p>>, NULL,
             archive_project(CurDb, p, ~projects[p].archived))
       /\ UNCHANGED <<clock, session, backup, runtime>>

EdArchiveClient ==
    \E c \in DOMAIN clients :
       /\ Do("archive_client", <<c>>, NULL,
             IF clients[c].archived THEN unarchive_client(CurDb, c)
                                    ELSE archive_client(CurDb, c))
       /\ UNCHANGED <<clock, session, backup, runtime>>

NextEdit ==
    \/ EdProjectSave
    \/ EdEntrySave
    \/ EdArchiveProject
    \/ EdArchiveClient

SpecEdit == InitEdit /\ [][NextEdit]_vars

----------------------------------------------------------------------------
(* services/reports.py: the billable amount of one entry.  An amount is
   kept exactly, as the integer duration_seconds * hourly_rate, that is in
   1/3600 of a currency unit; both functions compute a non-zero amount by
   the same expression (duration_seconds / 3600.0) * hourly_rate, so they
   round alike. *)

(* the lambda of df.apply in summary_by_project, summary_by_client,
   summary_by_day and detailed_report, the same text in all four *)
row_billable_amount(duration_seconds, hourly_rate, billable) ==
    IF billable THEN duration_seconds * hourly_rate ELSE 0

(* calculate_billable_amount without the billable flag *)
calculate_billable_amount_any(duration_seconds, hourly_rate, is_billable) ==
    IF hourly_rate <= 0 THEN 0 ELSE duration_seconds * hourly_rate

calculate_billable_amount(duration_seconds, hourly_rate, is_billable) ==
    IF ~is_billable \/ hourly_rate <= 0 THEN 0
    ELSE duration_seconds * hourly_rate

(* Specification of the two as pure functions: Init draws a report, a
   duration, a rate and a flag, the action computes both amounts *)

Reports ==
    {"summary_by_project", "summary_by_client", "summary_by_day", "detailed_report"}

BillableSeconds == { 0, 1, 1800, 3600, 5400, MaxBillableHours * 3600 }

Rates == { -MaxRate, -1, 0, 1, 100, MaxRate }

InitBillable ==
    /\ EmptyDb
    /\ clock = 0
    /\ session = NoSession
    /\ backup = NULL
    /\ NoRuntime
    /\ \E report \in Reports, d \in BillableSeconds, rate \in Rates, b \in BOOLEAN :
         call = [op |-> report, args |-> <<d, rate, b>>, existing |-> NULL]
    /\ ret = Pending

BillableAmount ==
    /\ call.op \in Reports
    /\ ret = Pending
    /\ ret' = [report |-> row_billable_amount(call.args[1], call.args[2], call.args[3]),
               helper |-> calculate_billable_amount(call.args[1], call.args[2],
                                                    call.args[3])]
    /\ UNCHANGED <<db, clock, session, call, backup, runtime>>

NextBillable == BillableAmount

SpecBillable == InitBillable /\ [][NextBillable]_vars

----------------------------------------------------------------------------
(* Specification of the Timer page in one browser session with room for
   more than one entry.  The runs are those of SpecTimer; the inputs of the
   timer section stay empty, the manual entry form tries two times of day,
   and the edit form is saved with at most the description changed. *)

PageInputs == { Inputs("", NULL, <<>>) }

PageTimes == { Tail(strftime(0)), Tail(strftime(EditSeconds)) }

PageChanges == [description : {NULL, Some("x")}, project_id : {NULL}, tag_ids : {NULL}]

PgReload ==
    \E w \in PageInputs : \E P \in Sections(w) :
       Commit("reload", <<>>, P)

PgStart ==
    \E w \in PageInputs : \E P \in Sections(w) :
       /\ ~Raised(P.ret)
       /\ ~P.session.timer_running
       /\ NextId(P.db.time_entries) <= MaxPageEntries
       /\ \E H \in { start_timer(P.db, P.session, clock, w.description,
                                  w.project_id, w.tag_ids) } :
             \E W \in Rerun(ThenRerun(H), w) : Commit("start_timer", <<>>, W)

PgStop ==
    \E w \in PageInputs : \E P \in Sections(w) :
       /\ ~Raised(P.ret)
       /\ P.session.timer_running
       /\ \E H \in { stop_timer(P.db, P.session, clock) } :
             \E W \in Rerun(ThenRerun(H), w) : Commit("stop_timer", <<>>, W)

PgManualAdd ==
    \E w \in PageInputs : \E P \in Sections(w) :
       \E a \in PageTimes, b \in PageTimes :
          /\ ~Raised(P.ret)
          /\ NextId(P.db.time_entries) <= MaxPageEntries
          /\ \E H \in { manual_entry_submit(P.db, P.session, w,
                                  <<strftime(clock)[1]>> \o a,
                                  <<strftime(clock)[1]>> \o b) } :
                \E W \in Rerun(H, w) : Commit("manual_entry", <<a, b>>, W)

PgSave ==
    \E w \in PageInputs : \E P \in Sections(w) :
       \E entry_id \in get_today_entries(P.db, clock) : \E u \in PageChanges :
          /\ ~Raised(P.ret)
          /\ \E H \in { entry_edit_save(P.db, P.session, entry_id, u) } :
                \E W \in Rerun(H, w) : Commit("save", <<entry_id>>, W)

PgDeleteClick ==
    \E w \in PageInputs : \E P \in Sections(w) :
       \E entry_id \in get_today_entries(P.db, clock) :
          /\ ~Raised(P.ret)
          /\ \E H \in { edit_form_delete(P.db, P.session, entry_id) } :
                \E W \in Rerun(H, w) : Commit("delete_click", <<entry_id>>, W)

PgConfirmYes ==
    \E w \in PageInputs : \E P \in Sections(w) :
       /\ ~Raised(P.ret)
       /\ P.session.confirm_delete_id # NULL
       /\ \E H \in { delete_confirmation_yes(P.db, P.session) } :
             \E W \in Rerun(H, w) : Commit("confirm_delete", <<>>, W)

PgCancel ==
    \E w \in PageInputs : \E P \in Sections(w) :
       /\ ~Raised(P.ret)
       /\ P.session.confirm_delete_id # NULL
       /\ \E H \in { delete_confirmation_cancel(P.db, P.session) } :
             \E W \in Rerun(H, w) : Commit("cancel_delete", <<>>, W)

NextPage ==
    \/ Tick
    \/ PgReload
    \/ PgStart
    \/ PgStop
    \/ PgManualAdd
    \/ PgSave
    \/ PgDeleteClick
    \/ PgConfirmYes
    \/ PgCancel

SpecPage == InitEntry /\ [][NextPage]_vars

----------------------------------------------------------------------------
(* views/clients.py, views/projects.py: the forms of the Clients and
   Projects pages *)

(* "Create Client"; a name that exists is answered with an error message *)
new_client_submit(D, name) ==
    IF name = "" THEN Ok(D, StError("Client name cannot be empty."))
    ELSE LET R == client_create(D, name) IN
         IF Raised(R.ret) THEN [db |-> R.db, ret |-> StError("already exists")]
         ELSE [db |-> R.db, ret |-> StRerun]

(* "Save changes" of the rename form of a client card *)
client_edit_save(D, client_id, new_name) ==
    IF new_name = "" THEN Ok(D, StError("Client name cannot be empty."))
    ELSE LET R == client_update(D, client_id, Some(new_name), NULL) IN
         IF Raised(R.ret) THEN [db |-> R.db, ret |-> StError("already exists")]
         ELSE [db |-> R.db, ret |-> StRerun]

(* "Create Project"; client_id is "(No client)" or one of client_options *)
new_project_submit(D, name, client_id) ==
    IF name = "" THEN Ok(D, StError("Project name cannot be empty."))
    ELSE LET R == project_create(D, name, client_id) IN
         [db |-> R.db, ret |-> IF Raised(R.ret) THEN R.ret ELSE StRerun]

(* Specification of the Clients and Projects pages: create, edit, archive
   and unarchive of clients and projects, from an empty database *)

OrgClientCreate ==
    \E name \in Names :
       /\ NextId(clients) <= MaxClients
       /\ Do("new_client", <<name>>, NULL, new_client_submit(CurDb, name))
       /\ UNCHANGED <<clock, session, backup, runtime>>

OrgClientSave ==
    \E c \in DOMAIN clients : \E name \in Names :
       /\ Do("client_edit_save", <<c, name>>, NULL, client_edit_save(CurDb, c, name))
       /\ UNCHANGED <<clock, session, backup, runtime>>

OrgProjectCreate ==
    \E name \in Names :
       \E client_id \in {NULL} \cup { Some(c) : c \in client_options(CurDb) } :
          /\ NextId(projects) <= MaxProjects
          /\ Do("new_project", <<name, client_id>>, NULL,
                new_project_submit(CurDb, name, client_id))
          /\ UNCHANGED <<clock, session, backup, runtime>>

OrgProjectSave ==
    \E p \in DOMAIN projects : \E u \in ProjectChanges(CurDb) :
       /\ Do("project_edit_save", <<p, u>>, NULL, project_edit_save(CurDb, p, u))
       /\ UNCHANGED <<clock, session, backup, runtime>>

OrgArchiveProject ==
    \E p \in DOMAIN projects :
       /\ ~projects[p].archived
       /\ Do("archive_project", <<p>>, NULL, archive_project(CurDb, p, TRUE))
       /\ UNCHANGED <<clock, session, backup, runtime>>

OrgUnarchiveProject ==
    \E p \in DOMAIN projects :
       /\ projects[p].archived
       /\ Do("unarchive_project", <<p>>, NULL, archive_project(CurDb, p, FALSE))
       /\ UNCHANGED <<clock, session, backup, runtime>>

OrgArchiveClient ==
    \E c \in DOMAIN clients :
       /\ ~clients[c].archived
       /\ Do("archive_client", <<c>>, NULL, archive_client(CurDb, c))
       /\ UNCHANGED <<clock, session, backup, runtime>>

OrgUnarchiveClient ==
    \E c \in DOMAIN clients :
       /\ clients[c].archived
       /\ Do("unarchive_client", <<c>>, NULL, unarchive_client(CurDb, c))
       /\ UNCHANGED <<clock, session, backup, runtime>>

NextOrg ==
    \/ OrgClientCreate
    \/ OrgClientSave
    \/ OrgProjectCreate
    \/ OrgProjectSave
    \/ OrgArchiveProject
    \/ OrgUnarchiveProject
    \/ OrgArchiveClient
    \/ OrgUnarchiveClient

SpecOrg == InitEmpty /\ [][NextOrg]_vars

----------------------------------------------------------------------------
(* Specification of referential integrity: create, update and delete of
   clients, projects, tags and time entries called directly, with ids that
   exist and ids that do not.  call.existing is the entry a delete found. *)

RefIds == 1..(MaxRefRows + 1)

OptRefIds == {NULL} \cup { Some(i) : i \in RefIds }

TagIdLists == {<<>>} \cup { <<t>> : t \in RefIds }

IntClientCreate ==
    /\ NextId(clients) <= MaxRefRows
    /\ Do("client_create", <<>>, NULL, client_create(CurDb, NameOf(NextId(clients))))
    /\ UNCHANGED <<clock, session, backup, runtime>>

IntProjectCreate ==
    \E client_id \in OptRefIds :
       /\ NextId(projects) <= MaxRefRows
       /\ Do("project_create", <<>>, NULL,
             project_create(CurDb, NameOf(NextId(projects)), client_id))
       /\ UNCHANGED <<clock, session, backup, runtime>>

IntTagCreate ==
    /\ NextId(tags) <= MaxRefRows
    /\ Do("tag_create", <<>>, NULL, tag_create(CurDb, NameOf(NextId(tags))))
    /\ UNCHANGED <<clock, session, backup, runtime>>

IntEntryCreate ==
    \E project_id \in OptRefIds, tag_ids \in TagIdLists :
       /\ NextId(time_entries) <= MaxRefRows
       /\ Do("create", <<>>, NULL,
             time_entry_create(CurDb, strftime(0), "", project_id, NULL, NULL,
                               tag_ids))
       /\ UNCHANGED <<clock, session, backup, runtime>>

IntProjectUpdate ==
    \E p \in RefIds, client_id \in OptRefIds :
       /\ Do("project_update", <<>>, NULL,
             project_update(CurDb, p, NULL, client_id, NULL))
       /\ UNCHANGED <<clock, session, backup, runtime>>

IntEntryUpdate ==
    \E e \in RefIds, project_id \in OptRefIds, tag_ids \in TagIdLists :
       /\ Do("update", <<>>, NULL,
             time_entry_update(CurDb, e, NULL, project_id, NULL, Ellipsis,
                               Ellipsis, Some(tag_ids)))
       /\ UNCHANGED <<clock, session, backup, runtime>>

IntClientDelete ==
    \E c \in RefIds :
       /\ Do("client_delete", <<>>, NULL, client_delete(CurDb, c))
       /\ UNCHANGED <<clock, session, backup, runtime>>

IntProjectDelete ==
    \E p \in RefIds :
       /\ Do("project_delete", <<>>, NULL, project_delete(CurDb, p))
       /\ UNCHANGED <<clock, session, backup, runtime>>

IntTagDelete ==
    \E t \in RefIds :
       /\ Do("tag_delete", <<>>, NULL, tag_delete(CurDb, t))
       /\ UNCHANGED <<clock, session, backup, runtime>>

IntEntryDelete ==
    \E e \in RefIds :
       /\ Do("delete", <<>>, time_entry_get_by_id(CurDb, e),
             time_entry_delete(CurDb, e))
       /\ UNCHANGED <<clock, session, backup, runtime>>

NextIntegrity ==
    \/ IntClientCreate
    \/ IntProjectCreate
    \/ IntTagCreate
    \/ IntEntryCreate
    \/ IntProjectUpdate
    \/ IntEntryUpdate
    \/ IntClientDelete
    \/ IntProjectDelete
    \/ IntTagDelete
    \/ IntEntryDelete

SpecIntegrity == InitEmpty /\ [][NextIntegrity]_vars

----------------------------------------------------------------------------
(* Claims *)

(* C1: in every state reachable through the Timer page (start, stop, edits
   of the running entry, manual entry, Save and confirmed delete of an
   entry card), every stored time entry has stop_time and duration_seconds
   both present or both absent. *)
C1_StopAndDuration ==
    \A e \in DOMAIN time_entries :
       (time_entries[e].stop_time = NULL) <=> (time_entries[e].duration_seconds = NULL)

(* after a Save that moved the end of a stopped entry *)
C1_Witness ==
    /\ call.op = "save"
    /\ ret = StRerun
    /\ \E e \in DOMAIN time_entries :
          /\ e = call.args[1]
          /\ time_entries[e].stop_time = strftime(TickStep)
          /\ time_entries[e].duration_seconds = Some(TickStep)
          /\ get_tags_for_entry(CurDb, e) # <<>>

(* C2: the archive action of the Clients page on a client that a
   non-archived project references shows an error and leaves the client
   (and every other row) as it was; on a client whose referencing projects
   are all archived it sets archived to true. *)
C2_ArchiveGuard ==
    [][ call'.op = "archive_client" =>
          IF \E p \in DOMAIN projects :
                /\ projects[p].client_id = Some(call'.args[1])
                /\ ~projects[p].archived
            THEN /\ DOMAIN ret' = {"error"}
                 /\ clients' = clients
                 /\ ~clients'[call'.args[1]].archived
                 /\ projects' = projects
            ELSE /\ DOMAIN ret' = {"rerun"}
                 /\ clients'[call'.args[1]].archived
                 /\ clients' = [clients EXCEPT ![call'.args[1]].archived = TRUE]
                 /\ projects' = projects
      ]_vars

(* an archive that succeeded on a client all of whose projects (there is
   one) had been archived *)
C2_Witness ==
    /\ call.op = "archive_client"
    /\ DOMAIN ret = {"rerun"}
    /\ clients[call.args[1]].archived
    /\ ProjectsOf(CurDb, call.args[1]) # {}
    /\ \A p \in ProjectsOf(CurDb, call.args[1]) : projects[p].archived

(* C3: when the text given to import_all_data is what export_all_data
   returns for the database as it is, the import succeeds and a second
   export_all_data returns, for each of the six tables, exactly the rows of
   the first, in the same order. *)
C3_RoundTrip ==
    [][ (call'.op = "import_all_data" /\ call'.args[1] = export_all_data(CurDb)) =>
          /\ ~Raised(ret')
          /\ \A table \in Tables :
                json_loads(export_all_data(CurDb)').v[table] =
                   json_loads(call'.args[1]).v[table]
      ]_vars

(* a round trip of a database with rows in all six tables, a project
   without client, an id that is not the row's position, and junction rows
   that are not in key order *)
C3_Witness ==
    /\ call.op = "import_all_data"
    /\ call.existing
    /\ ~Raised(ret)
    /\ \A table \in Tables : ret[table] > 0
    /\ \E p \in DOMAIN projects : projects[p].client_id = NULL
    /\ 1 \notin DOMAIN clients
    /\ Len(time_entry_tags) > 1
    /\ time_entry_tags[1][2] > time_entry_tags[2][2]

(* C4: import_all_data given a text that is not valid JSON, or valid JSON
   whose top-level value is not an object, raises ValueError ("Invalid
   JSON" / "Expected a JSON object at the top level.") and leaves every
   row of the six tables as it was. *)
C4_ImportRejects ==
    [][ call'.op = "import_all_data" =>
          /\ ~IsJson(call'.args[1]) =>
                /\ ret' = [raise |-> "ValueError: Invalid JSON"]
                /\ db' = db
          /\ (IsJson(call'.args[1]) /\ json_loads(call'.args[1]).json # "object") =>
                /\ ret' = [raise |-> "ValueError: Expected a JSON object at the top level."]
                /\ db' = db
      ]_vars

(* a rejected import over a database with rows in all six tables *)
C4_Witness ==
    /\ call.op = "import_all_data"
    /\ call.args[1] = json_dumps(JArray(<<JNumber(1), JNumber(2), JNumber(3)>>))
    /\ Raised(ret)
    /\ \A table \in Tables : CurDb[table] # <<>>

(* C5: deleting an existing tag used by N time entries removes exactly the N
   junction rows of that tag and changes nothing else: the time_entries rows
   are the same, every entry keeps its other tags, every other tag and every
   client and project row is the same. *)
C5_TagDeleteFrame ==
    [][ (call'.op = "tag_delete" /\ call'.args[1] \in DOMAIN tags) =>
          /\ ret' = TRUE
          /\ DOMAIN tags' = DOMAIN tags \ {call'.args[1]}
          /\ \A k \in DOMAIN tags' : tags'[k] = tags[k]
          /\ time_entry_tags' =
               SelectSeq(time_entry_tags, LAMBDA j : j[2] # call'.args[1])
          /\ Range(time_entry_tags) \ Range(time_entry_tags') =
               { <<e, call'.args[1]>> : e \in call'.existing.used_by }
          /\ Len(time_entry_tags) - Len(time_entry_tags') =
               Cardinality(call'.existing.used_by)
          /\ time_entries' = time_entries
          /\ projects' = projects
          /\ clients' = clients
          /\ settings' = settings
      ]_vars

C5_Witness ==
    /\ call.op = "tag_delete"
    /\ ret = TRUE
    /\ Cardinality(call.existing.used_by) = 2
    /\ \A e \in call.existing.used_by : e \in DOMAIN time_entries
    /\ \E e \in call.existing.used_by : get_tags_for_entry(CurDb, e) # <<>>
    /\ \E e \in call.existing.used_by : time_entries[e].project_id # NULL

(* C6: deleting a client deletes no project, and every project that
   referenced it is still there with client_id NULL; deleting a project
   deletes no time entry, and every entry that referenced it is still there
   with project_id NULL.  Rows that did not reference the deleted row are
   the same. *)
C6_DeleteKeepsReferrers ==
    [][ /\ call'.op = "client_delete" =>
              /\ DOMAIN projects' = DOMAIN projects
              /\ \A p \in DOMAIN projects :
                    projects'[p] =
                      IF projects[p].client_id = Some(call'.args[1])
                        THEN [projects[p] EXCEPT !.client_id = NULL]
                        ELSE projects[p]
        /\ call'.op = "project_delete" =>
              /\ DOMAIN time_entries' = DOMAIN time_entries
              /\ \A e \in DOMAIN time_entries :
                    time_entries'[e] =
                      IF time_entries[e].project_id = Some(call'.args[1])
                        THEN [time_entries[e] EXCEPT !.project_id = NULL]
                        ELSE time_entries[e]
      ]_vars

C6_Witness ==
    /\ call.op = "client_delete"
    /\ ret = TRUE
    /\ call.existing.used_by # {}
    /\ \A p \in call.existing.used_by :
          p \in DOMAIN projects /\ projects[p].client_id = NULL
    /\ \E p \in DOMAIN projects : projects[p].client_id # NULL
    /\ \E e \in DOMAIN time_entries :
          time_entries[e].project_id \in { Some(p) : p \in call.existing.used_by }

(* C7: get_active_entry returns None exactly when no stored entry has a NULL
   stop_time; otherwise it returns a stored entry with NULL stop_time whose
   start_time is the greatest among the entries with NULL stop_time, as a
   string and, the strings being timestamps, as a time. *)
C7_GetActiveEntry ==
    call.op = "get_active_entry" =>
      /\ ret = NULL <=> (\A i \in DOMAIN time_entries :
                            time_entries[i].stop_time # NULL)
      /\ ret # NULL =>
           /\ ret.id \in DOMAIN time_entries
           /\ ret.stop_time = NULL
           /\ time_entries[ret.id].stop_time = NULL
           /\ ret.start_time = time_entries[ret.id].start_time
           /\ \A k \in DOMAIN time_entries :
                 time_entries[k].stop_time = NULL =>
                   /\ ~StrLess(ret.start_time, time_entries[k].start_time)
                   /\ strptime(time_entries[k].start_time)
                        <= strptime(ret.start_time)

C7_Witness ==
    /\ call.op = "get_active_entry"
    /\ ret # NULL
    /\ \E k \in DOMAIN time_entries :
          /\ k # ret.id
          /\ time_entries[k].stop_time = NULL
          /\ strptime(time_entries[k].start_time) < strptime(ret.start_time)

CreateStart == call.args[1]
CreateStop == call.args[2]
CreateDuration == call.args[3]

(* C8: create called with a start time S and a stop time E > S and no
   duration stores duration_seconds = E - S in whole seconds (and the two
   times as given); called with neither stop time nor duration it stores
   stop_time and duration_seconds both NULL. *)
C8_CreateDuration ==
    (call.op = "create" /\ CreateDuration = NULL) =>
      /\ (CreateStop # NULL /\ strptime(CreateStop) > strptime(CreateStart)) =>
            /\ ~Raised(ret)
            /\ time_entries[ret.id].start_time = CreateStart
            /\ time_entries[ret.id].stop_time = CreateStop
            /\ time_entries[ret.id].duration_seconds =
                 Some(strptime(CreateStop) - strptime(CreateStart))
            /\ ret.duration_seconds = time_entries[ret.id].duration_seconds
      /\ CreateStop = NULL =>
            /\ ~Raised(ret)
            /\ time_entries[ret.id].stop_time = NULL
            /\ time_entries[ret.id].duration_seconds = NULL

C8_Witness ==
    /\ call.op = "create"
    /\ CreateDuration = NULL
    /\ CreateStop # NULL
    /\ strptime(CreateStop) > strptime(CreateStart)
    /\ time_entries[ret.id].duration_seconds = Some(TickStep)

StopId == call.args[1]

StopTime == IF call.args[2] = NULL THEN strftime(clock) ELSE call.args[2]

StoppedRunning ==
    /\ call.op = "stop_entry"
    /\ call.existing # NULL
    /\ call.existing.stop_time = NULL

(* C9: stop_entry(id, t) on an existing entry that was running stores
   stop_time = t and duration_seconds = t - start_time of that entry in whole
   seconds, leaves its description, project_id, start_time and tags as they
   were, and get_active_entry no longer returns that entry. *)
C9_StopEntry ==
    StoppedRunning =>
      /\ time_entries[StopId].stop_time = StopTime
      /\ time_entries[StopId].duration_seconds =
           Some(strptime(StopTime) - strptime(call.existing.start_time))
      /\ time_entries[StopId].description = call.existing.description
      /\ time_entries[StopId].project_id = call.existing.project_id
      /\ time_entries[StopId].start_time = call.existing.start_time
      /\ get_tags_for_entry(CurDb, StopId) = call.existing.tags
      /\ \A r \in get_active_entry(CurDb) : r = NULL \/ r.id # StopId

C9_Witness ==
    /\ StoppedRunning
    /\ call.args[2] # NULL
    /\ call.existing.tags # <<>>
    /\ time_entries[StopId].duration_seconds = Some(TickStep)
    /\ \E r \in get_active_entry(CurDb) : r # NULL

ValidateDone == call.op = "validate_manual_entry" /\ ret # Pending

ValidateDiff == strptime(call.args[2]) - strptime(call.args[1])

ValidateParsed == IsTimestamp(call.args[1]) /\ IsTimestamp(call.args[2])

(* C10: validate_manual_entry(start, end) succeeds, with an empty message,
   exactly when both strings are in the datetime format, end is strictly
   after start and end - start is at most 86400 seconds; a difference of
   exactly 86400 is accepted, 86401 is rejected with the 24-hour message,
   and end at or before start is rejected with the "after" message. *)
C10_ValidateManualEntry ==
    ValidateDone =>
      /\ ret.ok <=> (ValidateParsed /\ ValidateDiff > 0 /\ ValidateDiff <= 86400)
      /\ ret.ok => ret.msg = ""
      /\ (ValidateParsed /\ ValidateDiff = 86400) => ret.ok
      /\ (ValidateParsed /\ ValidateDiff = 86401) =>
            (~ret.ok /\ ret.msg = "Duration cannot exceed 24 hours.")
      /\ (ValidateParsed /\ ValidateDiff <= 0) =>
            (~ret.ok /\ ret.msg = "End time must be after start time.")

C10_Witness ==
    /\ ValidateDone
    /\ ValidateParsed
    /\ ValidateDiff = 86400
    /\ ret.ok

FormatDone == call.op = "format_duration" /\ ret # Pending

(* the number a string of decimal digits denotes *)
RECURSIVE Number(_)
Number(digits) ==
    IF digits = <<>> THEN 0
    ELSE 10 * Number(SubSeq(digits, 1, Len(digits) - 1)) + (digits[Len(digits)] - 48)

IsDigits(chars) == \A i \in DOMAIN chars : chars[i] \in 48..57

(* text is "H..H:MM:SS" for the given numbers: two digits of minutes and of
   seconds, and the hours in at least two digits with no more leading zeros
   than that *)
IsHMS(text, hours, minutes, secs) ==
    LET n == Len(text)
        hh == SubSeq(text, 1, n - 6)
        mm == SubSeq(text, n - 4, n - 3)
        ss == SubSeq(text, n - 1, n)
    IN /\ n >= 8
       /\ text[n - 5] = 58 /\ text[n - 2] = 58
       /\ IsDigits(hh) /\ IsDigits(mm) /\ IsDigits(ss)
       /\ Len(hh) > 2 => hh[1] # 48
       /\ Number(hh) = hours /\ Number(mm) = minutes /\ Number(ss) = secs

(* C11: for an integer s >= 0, format_duration(s) is HH:MM:SS with hours =
   s div 3600 (two digits at least, not capped at 24), minutes =
   (s mod 3600) div 60 and seconds = s mod 60, each zero-padded to two
   digits; for an absent or negative argument it is 00:00:00. *)
C11_FormatDuration ==
    FormatDone =>
      LET s == call.args[1] IN
      IF s = NULL \/ Val(s) < 0
        THEN ret.a = <<48, 48, 58, 48, 48, 58, 48, 48>>
        ELSE IsHMS(ret.a, Val(s) \div 3600, (Val(s) % 3600) \div 60, Val(s) % 60)

C11_Witness ==
    /\ FormatDone
    /\ call.args[1] = Some(MaxFormatHours * 3600 + 9 * 60 + 59)
    /\ Len(ret.a) = Len(str(MaxFormatHours)) + 6
    /\ call.args[2] = Some(25 * 3600 + 59 * 60 + 59)
    /\ ret.b = <<50, 53, 58, 53, 57, 58, 53, 57>>

FormatOrdered ==
    /\ call.args[1] # NULL /\ call.args[2] # NULL
    /\ 0 <= Val(call.args[1])
    /\ Val(call.args[1]) < Val(call.args[2])

(* the number of characters the hour field of format_duration(s) takes *)
HourWidth(s) == Len(format_02d(Val(s) \div 3600))

(* C12 as stated: for all integers 0 <= a < b, the string
   format_duration(a) compares strictly less than the string
   format_duration(b). *)
C12_OrderPreserving ==
    (FormatDone /\ FormatOrdered) => StrLess(ret.a, ret.b)

(* C12 as amended: for all integers 0 <= a < b whose hour fields have the
   same number of digits (in particular whenever b < 360000, that is below
   100 hours), format_duration(a) compares strictly less than
   format_duration(b). *)
C12_OrderPreservingSameWidth ==
    (FormatDone /\ FormatOrdered /\ HourWidth(call.args[1]) = HourWidth(call.args[2]))
      => StrLess(ret.a, ret.b)

C12_Witness ==
    /\ FormatDone
    /\ call.args[1] = Some(MaxFormatHours * 3600 + 59)
    /\ call.args[2] = Some(MaxFormatHours * 3600 + 9 * 60)
    /\ HourWidth(call.args[1]) = 3
    /\ HourWidth(call.args[2]) = 3
    /\ StrLess(ret.a, ret.b)

(* C13: immediately after sync_timer_state: if the database holds an entry
   with absent stop_time, the session has timer_running = true and its
   active_entry_id, description, project and tags are those of what
   get_active_entry() returns; if it holds none, the session has
   timer_running = false and active_entry_id absent. *)
C13_SyncTimerState ==
    call.op = "sync_timer_state" =>
      LET S == session[call.args[1]] IN
      IF \E id \in DOMAIN time_entries : time_entries[id].stop_time = NULL
        THEN /\ S.timer_running
             /\ \E active \in get_active_entry(CurDb) :
                   /\ active = call.existing
                   /\ S.active_entry_id = Some(active.id)
                   /\ S.timer_description = active.description
                   /\ S.timer_project_id = active.project_id
                   /\ S.timer_tag_ids = active.tags
        ELSE /\ ~S.timer_running
             /\ S.active_entry_id = NULL

(* a sync that found two running entries and moved the session from the one
   it had started to the one started later by the other session *)
C13_Witness ==
    /\ call.op = "sync_timer_state"
    /\ call.args[1] = 1
    /\ Cardinality(RunningIds(CurDb)) = 2
    /\ session[1].active_entry_id = Some(2)
    /\ session[2].active_entry_id = Some(2)
    /\ time_entries[1].description # time_entries[2].description
    /\ session[1].timer_description = time_entries[2].description
    /\ session[1].timer_tag_ids = get_tags_for_entry(CurDb, 2)

(* the session fields stop_timer clears *)
Cleared(S) ==
    /\ ~S.timer_running
    /\ S.active_entry_id = NULL
    /\ S.timer_description = ""
    /\ S.timer_project_id = NULL
    /\ S.timer_tag_ids = <<>>

(* C14: stop_timer called when the session has no active entry id returns
   absent and changes neither the database nor the session; called with an
   active id it stops that entry with stop_time = now, and afterwards the
   session has timer_running = false, active_entry_id absent, description
   empty, project absent and tags empty, even if the entry no longer
   exists. *)
C14_StopTimer ==
    [][ \A i \in SessionIds :
          (clock' = clock /\ call'.op = "stop_timer" /\ call'.args[1] = i) =>
            IF session[i].active_entry_id = NULL
              THEN /\ ret' = NULL
                   /\ CurDb' = CurDb
                   /\ session' = session
              ELSE LET id == Val(session[i].active_entry_id) IN
                   /\ Cleared(session'[i])
                   /\ \A k \in SessionIds \ {i} : session'[k] = session[k]
                   /\ IF id \in DOMAIN time_entries
                        THEN /\ time_entries'[id].stop_time = strftime(clock)
                             /\ ret' = row_to_time_entry(CurDb', id)
                        ELSE /\ CurDb' = CurDb
                             /\ ret' = NULL
      ]_vars

(* stop_timer has just cleared a session whose entry another session had
   deleted, and nothing was stopped *)
C14_Witness ==
    /\ call.op = "stop_timer"
    /\ ret = NULL
    /\ call.existing # NULL
    /\ Val(call.existing) \notin DOMAIN time_entries
    /\ Cleared(session[call.args[1]])

(* C20: when two sessions each call start_timer before either stops, both
   created entries are stored with absent stop_time at the same time: the
   second start neither fails nor stops the first session's entry. *)
C20_TwoRunning ==
    [][ \A i \in SessionIds :
          (/\ clock' = clock /\ call'.op = "start_timer" /\ call'.args[1] = i
           /\ \E k \in SessionIds \ {i} :
                 /\ session[k].active_entry_id # NULL
                 /\ Val(session[k].active_entry_id) \in RunningIds(CurDb))
          => /\ ret' # NULL
             /\ ~Raised(ret')
             /\ ret'.id \notin DOMAIN time_entries
             /\ ret'.id \in RunningIds(CurDb')
             /\ RunningIds(CurDb) \subseteq RunningIds(CurDb')
             /\ \A id \in DOMAIN time_entries : time_entries'[id] = time_entries[id]
      ]_vars

(* both sessions have started, neither has stopped, and each session's
   entry is running *)
C20_Witness ==
    /\ call.op = "start_timer"
    /\ session[1].active_entry_id # NULL
    /\ session[2].active_entry_id # NULL
    /\ session[1].active_entry_id # session[2].active_entry_id
    /\ Val(session[1].active_entry_id) \in RunningIds(CurDb)
    /\ Val(session[2].active_entry_id) \in RunningIds(CurDb)

(* the ids of the rows of a table *)
IdsOf(table) ==
    CASE table = "clients" -> DOMAIN clients
      [] table = "projects" -> DOMAIN projects
      [] table = "tags" -> DOMAIN tags
      [] table = "time_entries" -> DOMAIN time_entries

(* C15: for Client, Project, Tag and TimeEntry, get_by_id, update and
   stop_entry called with an id that does not exist return absent and delete
   returns false; none of them raises and none of them changes any stored
   row. *)
C15_NotFound ==
    [][ (/\ call'.op \in {"get_by_id", "update", "stop_entry", "delete"}
         /\ call'.args[1] \notin IdsOf(call'.args[2]))
        => /\ IF call'.op = "delete" THEN ret' = FALSE ELSE ret' = NULL
           /\ CurDb' = CurDb
      ]_vars

(* an update with references to rows that do not exist, on the id of an
   entry that was deleted, while another table holds a row *)
C15_Witness ==
    /\ call.op = "update"
    /\ call.args[2] = "time_entries"
    /\ call.args[1] = 1
    /\ Some(NoSuchId) = call.args[4]
    /\ Some(<<NoSuchId>>) = call.args[5]
    /\ ret = NULL
    /\ time_entries = EmptyTable
    /\ projects # EmptyTable

NamesUnique(t) == \A i \in DOMAIN t, k \in DOMAIN t : t[i].name = t[k].name => i = k

(* the ids of the rows of t, other than the row the call renames, that have
   the name *)
Namesakes(t, name, args) ==
    { i \in DOMAIN t : t[i].name = name /\ (Len(args) = 1 \/ i # args[2]) }

(* C16: in every reachable state no two clients share a name and no two
   tags share a name: a create or rename that would give a client (or tag)
   the name of another existing client (or tag) fails with a uniqueness
   violation and leaves the table unchanged. *)
C16_UniqueNames ==
    /\ [](NamesUnique(clients) /\ NamesUnique(tags))
    /\ [][ /\ (/\ call'.op \in {"client_create", "client_update"}
               /\ Namesakes(clients, call'.args[1], call'.args) # {})
             => (ret' = [raise |-> "IntegrityError"] /\ clients' = clients)
           /\ (/\ call'.op \in {"tag_create", "tag_update"}
               /\ Namesakes(tags, call'.args[1], call'.args) # {})
             => (ret' = [raise |-> "IntegrityError"] /\ tags' = tags)
           /\ (/\ call'.op \in {"client_create", "client_update", "tag_create", "tag_update"}
               /\ Namesakes(IF call'.op \in {"client_create", "client_update"}
                              THEN clients ELSE tags,
                            call'.args[1], call'.args) = {})
             => ~Raised(ret')
         ]_vars

(* a rename of one of two clients to the name of the other has failed *)
C16_Witness ==
    /\ call.op = "client_update"
    /\ Raised(ret)
    /\ Cardinality(DOMAIN clients) = 2
    /\ \E i \in DOMAIN clients \ {call.args[2]} : clients[i].name = call.args[1]
    /\ clients[call.args[2]].name # call.args[1]

(* what a field holds after an update: the argument if it was supplied,
   the stored value if it was omitted *)
OrNone(arg, stored) == IF arg # NULL THEN Val(arg) ELSE stored

OrEllipsis(arg, stored) == IF arg # Ellipsis THEN arg ELSE stored

(* C17: Project.update and TimeEntry.update change only the fields
   supplied: an omitted field keeps its stored value; for Project.client_id
   and TimeEntry.project_id / stop_time / duration_seconds, omitting the
   argument (the no-change sentinel) keeps the stored value, passing absent
   explicitly clears the field, and passing a value sets it. *)
C17_UpdateFrame ==
    [][ /\ call'.op = "project_update" =>
             LET a == call'.args IN
             /\ ~Raised(ret')
             /\ projects'[1].name = OrNone(a[1], projects[1].name)
             /\ projects'[1].client_id = OrEllipsis(a[2], projects[1].client_id)
             /\ projects'[1].archived = OrNone(a[3], projects[1].archived)
             /\ UNCHANGED <<clients, tags, time_entries, time_entry_tags, settings>>
        /\ call'.op = "update" =>
             LET a == call'.args
                 e == time_entries[1]
             IN /\ ~Raised(ret')
                /\ time_entries'[1].description = OrNone(a[1], e.description)
                /\ time_entries'[1].project_id = OrEllipsis(a[2], e.project_id)
                /\ time_entries'[1].start_time =
                      (IF a[3] # NULL THEN a[3] ELSE e.start_time)
                /\ time_entries'[1].stop_time = OrEllipsis(a[4], e.stop_time)
                /\ time_entries'[1].duration_seconds =
                      OrEllipsis(a[5], e.duration_seconds)
                /\ get_tags_for_entry(CurDb', 1) =
                      OrNone(a[6], get_tags_for_entry(CurDb, 1))
                /\ UNCHANGED <<clients, projects, tags, settings>>
      ]_vars

(* an update that passed stop_time as None and omitted everything else has
   cleared stop_time and left project, duration and tags, all set
   before, as they were *)
C17_Witness ==
    /\ call.op = "update"
    /\ NULL = call.args[4]
    /\ call.args[5] = Ellipsis
    /\ call.existing.stop_time # NULL
    /\ time_entries[1].stop_time = NULL
    /\ time_entries[1].duration_seconds = Some(5)
    /\ time_entries[1].project_id = Some(1)
    /\ time_entries[1].description = "d"
    /\ get_tags_for_entry(CurDb, 1) = <<1>>

(* the position in history of the latest call op on key, 0 if there is
   none *)
Latest(op, key) ==
    Max({0} \cup { i \in DOMAIN history : history[i][1] = op /\ history[i][2] = key })

(* what the claim says get_setting(key) returns *)
SettingExpected(key) ==
    IF Latest("set", key) > Latest("delete", key)
      THEN Some(history[Latest("set", key)][3])
    ELSE IF key \in {"default_project_id", "default_billable", "timezone", "working_hours_per_day"}
      THEN Some(CASE key = "default_project_id" -> ""
                  [] key = "default_billable" -> "false"
                  [] key = "timezone" -> "Europe/Prague"
                  [] key = "working_hours_per_day" -> "8.0")
    ELSE NULL

(* C18: after any sequence of set_setting and delete_setting calls,
   get_setting(k) returns the value of the latest set_setting(k, v) if one
   happened after the latest delete_setting(k), otherwise the compiled-in
   default when k is a known key and absent when k is unknown;
   delete_setting(k) returns true exactly when a stored row for k
   existed. *)
C18_Settings ==
    /\ [](/\ \A key \in SettingNames : get_setting(CurDb, key) = SettingExpected(key)
          /\ call.op = "get_setting" => ret = SettingExpected(call.args[1]))
    /\ [][ call'.op = "delete_setting" =>
             ret' = (\E i \in DOMAIN settings : settings[i].key = call'.args[1])
         ]_vars

(* get_setting has returned the default of a key that was set and later
   deleted, while another key is stored *)
C18_Witness ==
    /\ call.op = "get_setting"
    /\ call.args[1] = "timezone"
    /\ ret = Some("Europe/Prague")
    /\ Latest("delete", "timezone") > Latest("set", "timezone")
    /\ Latest("set", "timezone") > 1
    /\ settings # <<>>

(* C19: under any interleaving of concurrent get_connection() calls without
   an explicit path, all callers receive the same connection instance:
   between two close_connection calls at most one shared connection is ever
   created. *)
C19_OneConnection ==
    /\ history.opened <= 1
    /\ Cardinality(history.returned) <= 1
    /\ history.returned \subseteq {connection}

(* both threads have called get_connection since the last close_connection
   and both hold the one connection that was created *)
C19_Witness ==
    /\ history.total = 1
    /\ history.opened = 1
    /\ history.returned = {Some(1)}
    /\ threads[1] = [pc |-> "idle", conn |-> Some(1)]
    /\ threads[2] = [pc |-> "idle", conn |-> Some(1)]

(* the junction rows of entry e in the table jt *)
TagsOf(jt, e) == { j[2] : j \in { k \in Range(jt) : k[1] = e } }

(* C21: a run of the Timer page while a timer is running changes the
   running entry's description, project_id or tags only when the user
   changed the corresponding input; a running entry whose project has been
   archived keeps its project_id. *)
C21_RenderFrame ==
    [][(call'.op = "render" /\ NULL # call'.existing) =>
         LET e == call'.existing.id
             u == call'.args[1]
         IN /\ e \in DOMAIN time_entries'
            /\ u.description = NULL =>
                  time_entries'[e].description = time_entries[e].description
            /\ u.project_id = NULL =>
                  time_entries'[e].project_id = time_entries[e].project_id
            /\ u.tag_ids = NULL =>
                  TagsOf(time_entry_tags', e) = TagsOf(time_entry_tags, e)]_vars

(* the text parses to a JSON object, so that import_all_data goes on to
   delete and insert *)
Parsed(json_str) == IsJson(json_str) /\ json_loads(json_str).json = "object"

(* C22: import_all_data is atomic: either the contents of all six tables
   are replaced by the input, or, if it raises after parsing succeeded, the
   data seen by every later operation is what was stored before the call. *)
C22_ImportAtomic ==
    [][(call'.op = "import_all_data" /\ Parsed(call'.args[1])) =>
         IF Raised(ret')
           THEN db' = db
           ELSE \A table \in Tables :
                   json_loads(export_all_data(CurDb)').v[table] =
                      RowsOf(json_loads(call'.args[1]), table)]_vars

(* C23: saving a project's edit form without changing the client selector
   leaves the project's client_id unchanged, and saving a time entry's edit
   form without changing the project selector leaves the entry's project_id
   unchanged, also when the linked client or project is archived. *)
C23_EditFrame ==
    [][/\ (call'.op = "project_edit_save" /\ call'.args[2].client_id = NULL) =>
             projects'[call'.args[1]].client_id = projects[call'.args[1]].client_id
       /\ (call'.op = "entry_edit_save" /\ call'.args[2].project_id = NULL) =>
             time_entries'[call'.args[1]].project_id =
                time_entries[call'.args[1]].project_id]_vars

(* C24: a time entry is removed from the Timer page only by the
   confirmation's Yes action for the id held in confirm_delete_id: clicking
   Delete on an entry card only sets confirm_delete_id to that entry's id,
   Cancel clears confirm_delete_id without deleting anything, and after Yes
   or Cancel confirm_delete_id is absent.  The clock stands still during a
   run of the page, which tells its step from a tick. *)
C24_DeleteConfirmed ==
    [][/\ DOMAIN time_entries \ DOMAIN time_entries' # {} =>
             /\ clock' = clock
             /\ call'.op = "confirm_delete"
             /\ session.confirm_delete_id # NULL
             /\ DOMAIN time_entries \ DOMAIN time_entries' =
                   {Val(session.confirm_delete_id)}
       /\ (clock' = clock /\ call'.op = "delete_click") =>
             /\ DOMAIN time_entries' = DOMAIN time_entries
             /\ session'.confirm_delete_id = Some(call'.args[1])
       /\ (clock' = clock /\ call'.op = "cancel_delete") =>
             /\ DOMAIN time_entries' = DOMAIN time_entries
             /\ session'.confirm_delete_id = NULL
       /\ (clock' = clock /\ call'.op = "confirm_delete") =>
             /\ DOMAIN time_entries' =
                   DOMAIN time_entries \ {Val(session.confirm_delete_id)}
             /\ session'.confirm_delete_id = NULL]_vars

(* the Yes action has removed the entry that Delete was clicked on *)
C24_Witness ==
    /\ call.op = "confirm_delete"
    /\ NextId(time_entries) = 1
    /\ time_entry_tags = <<>>
    /\ session.confirm_delete_id = NULL
    /\ clock > 0

BillableDone == call.op \in Reports /\ ret # Pending

(* C25: for every completed entry, the per-entry billable amount used by
   summary_by_project, summary_by_client, summary_by_day and
   detailed_report equals calculate_billable_amount(duration_seconds,
   hourly_rate, billable) for the same duration, rate and billable flag,
   for every rate including non-positive ones. *)
C25_BillableAmount ==
    BillableDone => ret.report = ret.helper

(* C25 as it holds: the two amounts are equal for every rate that is not
   negative; for a negative rate on a billable entry with a positive
   duration the reports use the negative product and the helper returns
   0. *)
C25_BillableAmountNonNegativeRate ==
    BillableDone =>
       LET d == call.args[1]
           rate == call.args[2]
           billable == call.args[3]
       IN IF rate >= 0 \/ ~billable \/ d = 0
            THEN ret.report = ret.helper
            ELSE ret.report = d * rate /\ ret.report < 0 /\ ret.helper = 0

(* a billable entry of one hour and a half at the rate 0: both amounts are
   0 *)
C25_Witness ==
    /\ BillableDone
    /\ call.args = <<5400, 0, TRUE>>
    /\ ret.report = 0
    /\ ret.helper = 0

(* C26: with a single session and no data import, in every state reachable
   through the Timer page (each page run performs sync_timer_state first,
   then offers Start only when the session is not running and Stop only
   when it is), at most one time entry has an absent stop_time. *)
C26_OneRunning ==
    Cardinality(RunningIds(CurDb)) <= 1

(* a timer was started while a completed entry was stored: two entries, one
   of them running *)
C26_Witness ==
    /\ call.op = "start_timer"
    /\ Cardinality(DOMAIN time_entries) = 2
    /\ Cardinality(RunningIds(CurDb)) = 1
    /\ session.timer_running

(* C27: in every state reachable through the Clients-page and
   Projects-page operations (create, edit, archive, unarchive of clients
   and projects), no archived client is referenced by a non-archived
   project. *)
C27_NoArchivedClientOfActiveProject ==
    \A p \in DOMAIN projects :
       (~projects[p].archived /\ projects[p].client_id # NULL) =>
          \A c \in DOMAIN clients :
             projects[p].client_id = Some(c) => ~clients[c].archived

(* C28: after any sequence of create, update and delete operations on
   clients, projects, tags and time entries, every project's client_id is
   absent or the id of an existing client, every time entry's project_id is
   absent or the id of an existing project, and every junction row
   references an existing time entry and an existing tag. *)
C28_ReferentialIntegrity ==
    /\ \A p \in DOMAIN projects :
          projects[p].client_id \in {NULL} \cup { Some(c) : c \in DOMAIN clients }
    /\ \A e \in DOMAIN time_entries :
          time_entries[e].project_id \in {NULL} \cup { Some(p) : p \in DOMAIN projects }
    /\ \A k \in DOMAIN time_entry_tags :
          /\ time_entry_tags[k][1] \in DOMAIN time_entries
          /\ time_entry_tags[k][2] \in DOMAIN tags

(* an entry that carried a tag was deleted: its junction row went with it
   and the tag stayed *)
C28_Witness ==
    /\ call.op = "delete"
    /\ NULL # call.existing
    /\ call.existing.tags # <<>>
    /\ time_entries = EmptyTable
    /\ time_entry_tags = <<>>
    /\ tags # EmptyTable

(* C29: once a time entry has a stop_time, no stop_timer call changes its
   stop_time or duration_seconds, including a stop_timer issued by a second
   session whose state was synced to that entry before the first session
   stopped it.  The clock stands still during a call, which tells its step
   from a tick. *)
C29_StoppedStaysStopped ==
    [][ \A e \in DOMAIN time_entries :
           (/\ call'.op = "stop_timer"
            /\ clock' = clock
            /\ time_entries[e].stop_time # NULL)
           => /\ e \in DOMAIN time_entries'
              /\ time_entries'[e].stop_time = time_entries[e].stop_time
              /\ time_entries'[e].duration_seconds
                    = time_entries[e].duration_seconds ]_vars

(* C30: stop_timer changes only the entry whose id is the session's
   active_entry_id: any other entry with absent stop_time stays running, and
   the next sync_timer_state of the session sets it back to timer_running =
   true with the remaining running entry of latest start_time as active
   entry.  The clock stands still during a call, which tells its step from a
   tick. *)
C30_StopTimerOnlyActive ==
    [][ /\ (call'.op = "stop_timer" /\ clock' = clock)
           => \A e \in DOMAIN time_entries :
                 Some(e) # call'.existing
                 => /\ e \in DOMAIN time_entries'
                    /\ time_entries'[e] = time_entries[e]
        /\ (/\ call.op = "stop_timer"
            /\ call'.op = "sync_timer_state"
            /\ call'.args[1] = call.args[1]
            /\ RunningIds(CurDb) # {})
           => /\ session'[call'.args[1]].timer_running = TRUE
              /\ session'[call'.args[1]].active_entry_id
                    \in { Some(e) : e \in ActiveIds(CurDb) }
              /\ time_entries' = time_entries ]_vars

(* a session stopped its entry while the entry of the other session runs on *)
C30_Witness ==
    /\ call.op = "stop_timer"
    /\ call.existing # NULL
    /\ Val(call.existing) \in DOMAIN time_entries
    /\ time_entries[Val(call.existing)].stop_time # NULL
    /\ RunningIds(CurDb) # {}
    /\ session[call.args[1]].timer_running = FALSE

====
